---- MODULE Spec2Model ----
(***************************************************************************)
(* A model of the dynamic band-classification and index-computation engine *)
(* of backend/scripts/geotiff_extractor.py (class DynamicGeoTIFFExtractor). *)
(*                                                                         *)
(* Strings are TLA+ strings; Python's substring test, lower(), float() and *)
(* f-string formatting are modelled by operators that compute them.        *)
(* Floating-point values are exact rationals extended with NaN and the two *)
(* infinities; rounding to float32 is not modelled.                        *)
(***************************************************************************)
EXTENDS Integers, Sequences, FiniteSets, TLC

VARIABLES
    pc,            \* position of the running operation
    description,   \* _identify_band_type: the band description argument
    metadata,      \* _identify_band_type: the band metadata map (ordered key/value pairs)
    band_index,    \* _identify_band_type: the 0-based position argument
    detected,      \* _identify_band_type: its outcome (a returned role or a raised exception)
    found_wavelength, \* _identify_band_type: what _extract_wavelength returned to it
    band1,         \* _safe_index_calc: first operand array
    band2,         \* _safe_index_calc: second operand array
    formula,       \* _safe_index_calc: the elementwise formula (by name)
    calc_result,   \* _safe_index_calc: its outcome
    dataset,       \* the opened raster: a sequence of bands
    band_info,     \* _compute_all_indices: result of _detect_band_types
    all_bands,     \* _compute_all_indices: the role map, in insertion order
    indices,       \* _compute_all_indices: the families computed so far
    rgb_bands,     \* _compute_all_indices: result of _find_rgb_bands
    custom_pairs,  \* the pairs of bands whose arrays _calculate_custom_indices has evaluated
    obj,           \* safe_json_serialize: its argument
    sanitized,     \* safe_json_serialize: its result
    resanitized,   \* safe_json_serialize: the result of applying it to its own result
    raw_metadata,  \* _parse_sensor_metadata: its argument (domain -> metadata map)
    all_metadata,  \* _parse_sensor_metadata: the flattened metadata
    detected_sensor, \* _parse_sensor_metadata: the detected sensor family
    parsed_info,   \* _parse_sensor_metadata: its result
    correlations,  \* _calculate_band_correlations: its result
    argv,          \* main: sys.argv
    file,          \* main: what the file system holds at the path argument
    raised,        \* extract_everything: the exception its except clause caught
    raw_data,      \* extract_everything: the sections evaluated so far
    extracted_data, \* extract_everything: the document it returned
    stdout,        \* main: the documents printed
    exit_code      \* main: the exit status of the process

SerializerVars == <<obj, sanitized, resanitized>>
SensorVars == <<raw_metadata, all_metadata, detected_sensor, parsed_info>>
CorrelationVars == <<correlations>>
ExtractVars == <<argv, file, raised, raw_data, extracted_data, stdout, exit_code>>

\* The variables outside the classifier, the numeric layer and the index engine.
NotEngine == <<SerializerVars, SensorVars, CorrelationVars, ExtractVars>>

vars == <<pc, description, metadata, band_index, detected, found_wavelength, band1, band2,
          formula, calc_result, dataset, band_info, all_bands, indices, rgb_bands, custom_pairs,
          NotEngine>>

(***************************************************************************)
(* Bounds of the model.                                                    *)
(***************************************************************************)
MaxPosition == 8
MaxMetadataEntries == 2
MaxPixels == 2
MaxBands == 3

(***************************************************************************)
(* Python values.                                                          *)
(***************************************************************************)
None == [k |-> "none"]
Some(v) == [k |-> "some", v |-> v]
Return(v) == [kind |-> "return", value |-> v]
Raise(e) == [kind |-> "raise", value |-> e]

Min(a, b) == IF a <= b THEN a ELSE b
Abs(x) == IF x < 0 THEN -x ELSE x

RECURSIVE Gcd(_, _)
Gcd(a, b) == IF b = 0 THEN a ELSE Gcd(b, a % b)

RECURSIVE Pow10(_)
Pow10(m) == IF m = 0 THEN 1 ELSE 10 * Pow10(m - 1)

\* A float: a finite rational n/d in lowest terms with d > 0, NaN, or +/-Infinity.
NaN == [k |-> "nan", n |-> 0, d |-> 1]
PInf == [k |-> "inf", n |-> 1, d |-> 1]
NInf == [k |-> "inf", n |-> -1, d |-> 1]
Fin(n, d) ==
    LET s == IF d < 0 THEN -1 ELSE 1
        g == Gcd(Abs(n), Abs(d))
    IN  [k |-> "fin", n |-> (s * n) \div g, d |-> (s * d) \div g]
Num(i) == [k |-> "fin", n |-> i, d |-> 1]

IsFinite(x) == x.k = "fin"
IsNaN(x) == x.k = "nan"
Sign(x) == IF x.n > 0 THEN 1 ELSE IF x.n < 0 THEN -1 ELSE 0
Inf(s) == IF s < 0 THEN NInf ELSE PInf

\* a <= b on floats: every comparison involving NaN is false.
FLe(a, b) ==
    IF IsNaN(a) \/ IsNaN(b) THEN FALSE
    ELSE IF a.k = "inf" THEN a.n < 0 \/ (b.k = "inf" /\ b.n > 0)
    ELSE IF b.k = "inf" THEN b.n > 0
    ELSE a.n * b.d <= b.n * a.d
FLt(a, b) == FLe(a, b) /\ a # b

\* IEEE-754 arithmetic on floats (zeros are unsigned: x/0 takes the sign of x).
\* Common factors are cancelled before multiplying, to keep the integers small.
FNeg(a) == IF IsNaN(a) THEN NaN ELSE [a EXCEPT !.n = -a.n]
FAdd(a, b) ==
    IF IsNaN(a) \/ IsNaN(b) THEN NaN
    ELSE IF a.k = "inf" /\ b.k = "inf" THEN (IF a.n = b.n THEN a ELSE NaN)
    ELSE IF a.k = "inf" THEN a
    ELSE IF b.k = "inf" THEN b
    ELSE LET g == Gcd(a.d, b.d)
         IN  Fin(a.n * (b.d \div g) + b.n * (a.d \div g), (a.d \div g) * b.d)
FSub(a, b) == FAdd(a, FNeg(b))
FMul(a, b) ==
    IF IsNaN(a) \/ IsNaN(b) THEN NaN
    ELSE IF a.k = "inf" \/ b.k = "inf"
         THEN (IF Sign(a) * Sign(b) = 0 THEN NaN ELSE Inf(Sign(a) * Sign(b)))
    ELSE LET g1 == Gcd(Abs(a.n), b.d)
             g2 == Gcd(Abs(b.n), a.d)
         IN  Fin((a.n \div g1) * (b.n \div g2), (a.d \div g2) * (b.d \div g1))
FDiv(a, b) ==
    IF IsNaN(a) \/ IsNaN(b) THEN NaN
    ELSE IF a.k = "inf" THEN (IF b.k = "inf" THEN NaN
                              ELSE Inf(Sign(a) * (IF Sign(b) < 0 THEN -1 ELSE 1)))
    ELSE IF b.k = "inf" THEN Num(0)
    ELSE IF b.n = 0 THEN (IF a.n = 0 THEN NaN ELSE Inf(Sign(a)))
    ELSE FMul(a, Fin(b.d, b.n))

\* Comparisons and elementwise helpers of numpy; NaN propagates through
\* np.maximum / np.minimum and fails every comparison.
FEq(a, b) == ~IsNaN(a) /\ ~IsNaN(b) /\ a = b
FGt(a, b) == FLt(b, a)
FMax(a, b) == IF IsNaN(a) \/ IsNaN(b) THEN NaN ELSE IF FLe(a, b) THEN b ELSE a
FMin(a, b) == IF IsNaN(a) \/ IsNaN(b) THEN NaN ELSE IF FLe(a, b) THEN a ELSE b
\* x % m for a finite m > 0: the result has the sign of m.
FMod(x, m) ==
    IF ~IsFinite(x) THEN NaN
    ELSE LET q == FDiv(x, m)
         IN  FSub(x, FMul(m, Num(q.n \div q.d)))

(***************************************************************************)
(* Python string operations.                                               *)
(***************************************************************************)
\* keyword in text
Contains(text, keyword) ==
    \E i \in 1..(Len(text) - Len(keyword) + 1) :
        SubSeq(text, i, i + Len(keyword) - 1) = keyword

UpperLetters == <<"A", "B", "C", "D", "E", "F", "G", "H", "I", "J", "K", "L", "M",
                  "N", "O", "P", "Q", "R", "S", "T", "U", "V", "W", "X", "Y", "Z">>
LowerLetters == <<"a", "b", "c", "d", "e", "f", "g", "h", "i", "j", "k", "l", "m",
                  "n", "o", "p", "q", "r", "s", "t", "u", "v", "w", "x", "y", "z">>
LowerChar(c) ==
    IF \E i \in 1..26 : UpperLetters[i] = c
    THEN LowerLetters[CHOOSE i \in 1..26 : UpperLetters[i] = c]
    ELSE c

\* str.lower()
RECURSIVE Lower(_)
Lower(s) ==
    IF s = "" THEN "" ELSE LowerChar(SubSeq(s, 1, 1)) \o Lower(SubSeq(s, 2, Len(s)))

Digits == <<"0", "1", "2", "3", "4", "5", "6", "7", "8", "9">>
IsDigit(c) == \E i \in 1..10 : Digits[i] = c
DigitValue(c) == (CHOOSE i \in 1..10 : Digits[i] = c) - 1
IsDigits(s) == \A i \in 1..Len(s) : IsDigit(SubSeq(s, i, i))

RECURSIVE DigitsValue(_)
DigitsValue(s) ==
    IF s = "" THEN 0
    ELSE 10 * DigitsValue(SubSeq(s, 1, Len(s) - 1)) + DigitValue(SubSeq(s, Len(s), Len(s)))

\* float(text) for the texts of the model: an optional sign, then nan, inf or
\* infinity in any case, or decimal digits with an optional fraction.  Anything
\* else raises ValueError.  (Exponents, underscores and surrounding blanks,
\* which float() also accepts, do not occur in the texts of the model.)
ParseFloat(text) ==
    LET signed == Len(text) > 0 /\ SubSeq(text, 1, 1) \in {"+", "-"}
        sgn == IF signed /\ SubSeq(text, 1, 1) = "-" THEN -1 ELSE 1
        body == IF signed THEN SubSeq(text, 2, Len(text)) ELSE text
        low == Lower(body)
        dots == {i \in 1..Len(body) : SubSeq(body, i, i) = "."}
        dot == IF dots = {} THEN Len(body) + 1 ELSE CHOOSE i \in dots : \A j \in dots : i <= j
        whole == SubSeq(body, 1, dot - 1)
        frac == SubSeq(body, dot + 1, Len(body))
    IN  IF low \in {"inf", "infinity"} THEN Return(Inf(sgn))
        ELSE IF low = "nan" THEN Return(NaN)
        ELSE IF /\ Cardinality(dots) <= 1
                /\ IsDigits(whole) /\ IsDigits(frac)
                /\ Len(whole) + Len(frac) > 0
             THEN Return(Fin(sgn * (DigitsValue(whole) * Pow10(Len(frac)) + DigitsValue(frac)),
                             Pow10(Len(frac))))
        ELSE Raise("ValueError")

\* A variant of int(x) that rounds to the nearest integer (halves away from zero).
IntOfNearest(x) ==
    IF IsNaN(x) THEN Raise("ValueError")
    ELSE IF x.k = "inf" THEN Raise("OverflowError")
    ELSE Return(Sign(x) * ((2 * Abs(x.n) + x.d) \div (2 * x.d)))

\* int(x): truncation toward zero; raises on NaN and on the infinities.
IntOf(x) ==
    IF IsNaN(x) THEN Raise("ValueError")
    ELSE IF x.k = "inf" THEN Raise("OverflowError")
    ELSE Return(Sign(x) * (Abs(x.n) \div x.d))

\* bool(x) of an optional float: None and 0.0 are false, everything else
\* (NaN included) is true.
Truthy(x) == x # None /\ ~(IsFinite(x) /\ x.n = 0)

(***************************************************************************)
(* Band Role Classifier.                                                   *)
(***************************************************************************)
patterns == <<
    [role |-> "blue", keywords |-> <<"blue", "b1", "coastal", "443", "480">>],
    [role |-> "green", keywords |-> <<"green", "b2", "560", "565">>],
    [role |-> "red", keywords |-> <<"red", "b3", "665", "660">>],
    [role |-> "nir", keywords |-> <<"nir", "near infrared", "b4", "832", "842">>],
    [role |-> "red_edge", keywords |-> <<"red edge", "vegetation red edge", "b5", "b6",
                                         "b7", "705", "740", "783">>],
    [role |-> "swir1", keywords |-> <<"swir", "swir1", "b6", "b11", "1610", "1565">>],
    [role |-> "swir2", keywords |-> <<"swir2", "b7", "b12", "2190", "2200">>],
    [role |-> "thermal", keywords |-> <<"thermal", "tir", "lwir", "b10", "b11",
                                        "temperature", "1030", "1100", "1200">>],
    [role |-> "pan", keywords |-> <<"panchromatic", "pan", "b8">>],
    [role |-> "cirrus", keywords |-> <<"cirrus", "b9", "1373">>],
    [role |-> "aerosol", keywords |-> <<"aerosol", "coastal aerosol", "443">>],
    [role |-> "dsr", keywords |-> <<"dsr", "direct solar radiation", "solar">>],
    [role |-> "direct", keywords |-> <<"direct", "direct radiation">>],
    [role |-> "diffuse", keywords |-> <<"diffuse", "diffuse radiation">>] >>

\* any(keyword in desc for keyword in keywords)
AnyKeyword(desc, keywords) ==
    \E j \in 1..Len(keywords) : Contains(desc, keywords[j])

\* A variant of the loop without the early return: the last matching role wins.
RECURSIVE MatchPatternsLastWins(_, _)
MatchPatternsLastWins(desc, i) ==
    IF i > Len(patterns) THEN None
    ELSE LET rest == MatchPatternsLastWins(desc, i + 1)
         IN  IF rest # None THEN rest
             ELSE IF AnyKeyword(desc, patterns[i].keywords) THEN Some(patterns[i].role)
             ELSE None

\* The loop over patterns.items(), from entry i on: the first matching role,
\* or None when the loop falls through.
RECURSIVE MatchPatterns(_, _)
MatchPatterns(desc, i) ==
    IF i > Len(patterns) THEN None
    ELSE IF AnyKeyword(desc, patterns[i].keywords) THEN Some(patterns[i].role)
    ELSE MatchPatterns(desc, i + 1)

\* A variant of the loop that gives up at the first matching key.
RECURSIVE ExtractWavelengthFromFirstKey(_, _)
ExtractWavelengthFromFirstKey(md, i) ==
    IF i > Len(md) THEN None
    ELSE LET key_lower == Lower(md[i][1])
             parsed == ParseFloat(md[i][2])
         IN  IF Contains(key_lower, "wavelength") \/ Contains(key_lower, "lambda")
             THEN (IF parsed.kind = "return" THEN parsed.value ELSE None)
             ELSE ExtractWavelengthFromFirstKey(md, i + 1)

\* _extract_wavelength, from entry i of the metadata map on.
RECURSIVE ExtractWavelengthFrom(_, _)
ExtractWavelengthFrom(md, i) ==
    IF i > Len(md) THEN None
    ELSE LET key_lower == Lower(md[i][1])
             parsed == ParseFloat(md[i][2])
         IN  IF (Contains(key_lower, "wavelength") \/ Contains(key_lower, "lambda"))
                /\ parsed.kind = "return"
             THEN parsed.value
             ELSE ExtractWavelengthFrom(md, i + 1)

ExtractWavelength(md) == ExtractWavelengthFrom(md, 1)

\* A variant of the range chain whose upper ends are exclusive.
ClassifyByWavelengthHalfOpen(wavelength) ==
    IF FLe(Num(400), wavelength) /\ FLt(wavelength, Num(500)) THEN Return("blue")
    ELSE IF FLe(Num(500), wavelength) /\ FLt(wavelength, Num(600)) THEN Return("green")
    ELSE IF FLe(Num(600), wavelength) /\ FLt(wavelength, Num(700)) THEN Return("red")
    ELSE IF FLe(Num(700), wavelength) /\ FLt(wavelength, Num(900)) THEN Return("nir")
    ELSE IF FLe(Num(1000), wavelength) /\ FLt(wavelength, Num(1800)) THEN Return("swir1")
    ELSE IF FLe(Num(1800), wavelength) /\ FLt(wavelength, Num(2500)) THEN Return("swir2")
    ELSE IF FLe(Num(8000), wavelength) /\ FLt(wavelength, Num(15000)) THEN Return("thermal")
    ELSE LET i == IntOf(wavelength)
         IN  IF i.kind = "raise" THEN i
             ELSE Return("spectral_" \o ToString(i.value) \o "nm")

\* _classify_by_wavelength: the if/elif chain, then the f-string of the else branch.
ClassifyByWavelength(wavelength) ==
    IF FLe(Num(400), wavelength) /\ FLe(wavelength, Num(500)) THEN Return("blue")
    ELSE IF FLe(Num(500), wavelength) /\ FLe(wavelength, Num(600)) THEN Return("green")
    ELSE IF FLe(Num(600), wavelength) /\ FLe(wavelength, Num(700)) THEN Return("red")
    ELSE IF FLe(Num(700), wavelength) /\ FLe(wavelength, Num(900)) THEN Return("nir")
    ELSE IF FLe(Num(1000), wavelength) /\ FLe(wavelength, Num(1800)) THEN Return("swir1")
    ELSE IF FLe(Num(1800), wavelength) /\ FLe(wavelength, Num(2500)) THEN Return("swir2")
    ELSE IF FLe(Num(8000), wavelength) /\ FLe(wavelength, Num(15000)) THEN Return("thermal")
    ELSE LET i == IntOf(wavelength)
         IN  IF i.kind = "raise" THEN i
             ELSE Return("spectral_" \o ToString(i.value) \o "nm")

common_orders == <<"blue", "green", "red", "nir", "swir1", "swir2", "thermal">>

\* _guess_by_position
GuessByPosition(index) ==
    IF index + 1 \in 1..Len(common_orders) THEN common_orders[index + 1]
    ELSE "band_" \o ToString(index + 1)

\* _identify_band_type
IdentifyBandType(desc_arg, md, index) ==
    LET desc == Lower(desc_arg)
        matched == MatchPatterns(desc, 1)
        wavelength == ExtractWavelength(md)
    IN  IF matched # None THEN Return(matched.v)
        ELSE IF Truthy(wavelength) THEN ClassifyByWavelength(wavelength)
        ELSE Return(GuessByPosition(index))

(***************************************************************************)
(* Numeric Safety Layer.                                                   *)
(***************************************************************************)
\* A band array holds its cells (the raster flattened), or is Unusable:
\* ReadAsArray() returned None.
Unusable == None
Array(cells) == [k |-> "array", cells |-> cells]

\* The elementwise formulas the callers pass as lambdas.  A formula is a
\* record: its name and, for evi, the swir1 array its closure captures.
L == Fin(1, 2)
Ratio == [name |-> "ratio"]
NDiff == [name |-> "ndiff"]
Savi == [name |-> "savi"]
Evi(swir1) == [name |-> "evi", swir1 |-> swir1]
ApplyFormula(f, a, b, i) ==
    CASE f.name = "ratio" -> FDiv(a, b)
      [] f.name = "ndiff" -> FDiv(FSub(a, b), FAdd(a, b))
      [] f.name = "savi" -> FMul(FDiv(FSub(a, b), FAdd(FAdd(a, b), L)), FAdd(Num(1), L))
      [] f.name = "evi" ->
            FDiv(FMul(Fin(5, 2), FSub(a, b)),
                 FAdd(FSub(FAdd(a, FMul(Num(6), b)), FMul(Fin(15, 2), f.swir1.cells[i])), Num(1)))

RECURSIVE SumOf(_, _)
SumOf(cells, idx) ==
    IF idx = {} THEN Num(0)
    ELSE LET i == CHOOSE j \in idx : TRUE
         IN  FAdd(cells[i], SumOf(cells, idx \ {i}))

\* np.mean, np.min, np.max and the square of np.std over the cells idx of an
\* array (idx non-empty).  NaN propagates through all four.
MeanOf(cells, idx) == FDiv(SumOf(cells, idx), Num(Cardinality(idx)))
MinOf(cells, idx) ==
    IF \E i \in idx : IsNaN(cells[i]) THEN NaN
    ELSE cells[CHOOSE i \in idx : \A j \in idx : FLe(cells[i], cells[j])]
MaxOf(cells, idx) ==
    IF \E i \in idx : IsNaN(cells[i]) THEN NaN
    ELSE cells[CHOOSE i \in idx : \A j \in idx : FLe(cells[j], cells[i])]
Square(x) == FMul(x, x)
VarAround(cells, idx, m) ==
    FDiv(SumOf([i \in idx |-> Square(FSub(cells[i], m))], idx), Num(Cardinality(idx)))
VarOf(cells, idx) == VarAround(cells, idx, MeanOf(cells, idx))

\* A variant of the mask that only drops NaN cells.
ValidMaskNotNaN(result) == {i \in DOMAIN result : ~IsNaN(result[i])}

\* valid_mask = np.isfinite(result)
ValidMask(result) == {i \in DOMAIN result : IsFinite(result[i])}

\* The statistics _safe_index_calc returns for a result and its mask.
MaskedStatistics(result, valid_mask) ==
    IF valid_mask # {}
    THEN [mean |-> MeanOf(result, valid_mask),
          std_squared |-> VarOf(result, valid_mask),
          min |-> MinOf(result, valid_mask),
          max |-> MaxOf(result, valid_mask),
          valid_pixels |-> Cardinality(valid_mask)]
    ELSE None
ResultStatistics(result) == MaskedStatistics(result, ValidMask(result))

\* _safe_index_calc: None when the computation raises (an unusable operand)
\* or when no cell of the result is finite; std is kept as its square.
SafeIndexCalc(b1, b2, f) ==
    IF b1 = Unusable \/ b2 = Unusable \/ (f.name = "evi" /\ f.swir1 = Unusable) THEN None
    ELSE ResultStatistics([i \in DOMAIN b1.cells |->
                              ApplyFormula(f, b1.cells[i], b2.cells[i], i)])

(***************************************************************************)
(* Python dicts: the [key, value] entries in insertion order.              *)
(***************************************************************************)
Dict(items) == [k |-> "dict", items |-> items]
EmptyDict == Dict(<<>>)
Size(dict) == Len(dict.items)
Has(dict, key) == \E i \in 1..Size(dict) : dict.items[i].key = key
Get(dict, key) == dict.items[CHOOSE i \in 1..Size(dict) : dict.items[i].key = key].value
Put(dict, key, value) ==
    IF Has(dict, key)
    THEN Dict([i \in 1..Size(dict) |->
             IF dict.items[i].key = key THEN [key |-> key, value |-> value]
             ELSE dict.items[i]])
    ELSE Dict(Append(dict.items, [key |-> key, value |-> value]))
\* `d if d else None` at the end of the family functions
OrNone(dict) == IF Size(dict) = 0 THEN None ELSE dict

(***************************************************************************)
(* Index Catalogue Engine.                                                 *)
(***************************************************************************)
\* _detect_band_types, from band i (1-based) on.  An exception raised by
\* _identify_band_type ends the loop and propagates.
RECURSIVE DetectBandTypesFrom(_, _, _)
\* The rest of the loop body once _identify_band_type has returned or raised.
RecordDetected(ds, i, band_types, detected_type) ==
    IF detected_type.kind = "raise" THEN detected_type
    ELSE DetectBandTypesFrom(ds, i + 1,
             Put(band_types, "band_" \o ToString(i),
                 [band_number |-> i,
                  detected_type |-> detected_type.value,
                  wavelength |-> ExtractWavelength(ds[i].metadata)]))
DetectBandTypesFrom(ds, i, band_types) ==
    IF i > Len(ds) THEN Return(band_types)
    ELSE RecordDetected(ds, i, band_types,
             IdentifyBandType(Lower(ds[i].description), ds[i].metadata, i - 1))

DetectBandTypes(ds) == DetectBandTypesFrom(ds, 1, EmptyDict)

\* band_info.get(f"band_{i+1}", {}).get("detected_type", f"band_{i+1}")
BandName(info, i) ==
    LET key == "band_" \o ToString(i)
    IN  IF Has(info, key) THEN Get(info, key).detected_type ELSE key

\* A variant of the role-map loop that keeps the first band of a role.
RECURSIVE BuildRoleMapFirstWins(_, _, _, _)
BuildRoleMapFirstWins(ds, info, i, role_map) ==
    IF i > Len(ds) THEN role_map
    ELSE BuildRoleMapFirstWins(ds, info, i + 1,
             IF Has(role_map, BandName(info, i)) THEN role_map
             ELSE Put(role_map, BandName(info, i), [band |-> i, data |-> ds[i].data]))

\* The loop of _compute_all_indices that fills all_bands, from band i on.
\* Each value is the array read from band i, tagged with that band's number.
RECURSIVE BuildRoleMap(_, _, _, _)
BuildRoleMap(ds, info, i, role_map) ==
    IF i > Len(ds) THEN role_map
    ELSE BuildRoleMap(ds, info, i + 1,
             Put(role_map, BandName(info, i), [band |-> i, data |-> ds[i].data]))

\* The loop of _find_rgb_bands over all_bands.items(), from entry i on.
RECURSIVE RgbMappingFrom(_, _, _, _)
RgbMappingFrom(role_map, info, i, rgb_mapping) ==
    IF i > Size(role_map) THEN rgb_mapping
    ELSE LET band_name == role_map.items[i].key
             data == role_map.items[i].value
             band_type == IF \E j \in 1..Size(info) : info.items[j].value.detected_type = band_name
                          THEN Some(band_name) ELSE None
         IN  RgbMappingFrom(role_map, info, i + 1,
                 IF band_type \in {Some("red"), Some("b3")} THEN Put(rgb_mapping, "red", data)
                 ELSE IF band_type \in {Some("green"), Some("b2")}
                      THEN Put(rgb_mapping, "green", data)
                 ELSE IF band_type \in {Some("blue"), Some("b1")}
                      THEN Put(rgb_mapping, "blue", data)
                 ELSE rgb_mapping)

\* The mapping when all three channels were found, None otherwise.
CompleteOrNone(rgb_mapping) == IF Size(rgb_mapping) = 3 THEN rgb_mapping ELSE None

\* A variant of _find_rgb_bands without the first-three-bands fallback.
FindRgbBandsNoFallback(role_map, info) ==
    CompleteOrNone(RgbMappingFrom(role_map, info, 1, EmptyDict))

\* The end of _find_rgb_bands: the fallback to the first three entries, then
\* the mapping when it is complete.
RgbOrFallback(role_map, rgb_mapping) ==
    IF Size(rgb_mapping) < 3 /\ Size(role_map) >= 3
    THEN Dict(<<[key |-> "red", value |-> role_map.items[1].value],
                [key |-> "green", value |-> role_map.items[2].value],
                [key |-> "blue", value |-> role_map.items[3].value]>>)
    ELSE CompleteOrNone(rgb_mapping)

\* _find_rgb_bands
FindRgbBands(role_map, info) ==
    RgbOrFallback(role_map, RgbMappingFrom(role_map, info, 1, EmptyDict))

\* mean / std (squared) / min / max of one channel over the valid pixels.
ChannelStatistics(cells, valid) ==
    IF valid # {}
    THEN [mean |-> MeanOf(cells, valid), std_squared |-> VarOf(cells, valid),
          min |-> MinOf(cells, valid), max |-> MaxOf(cells, valid)]
    ELSE [mean |-> None, std_squared |-> None, min |-> None, max |-> None]

\* The normalization of one channel: by 255 for 8-bit data, else by the
\* channel's own range when it has one.
Normalize(data, lo, hi, eight_bit) ==
    IF eight_bit THEN [i \in DOMAIN data.cells |-> FDiv(data.cells[i], Num(255))]
    ELSE IF FGt(hi, lo)
         THEN [i \in DOMAIN data.cells |-> FDiv(FSub(data.cells[i], lo), FSub(hi, lo))]
         ELSE data.cells

\* The hue of a pixel, in sixths of a turn: the red, green and blue masks
\* are applied in that order, so a later mask overwrites an earlier one.
HueSector(r, g, b, max_rgb, delta) ==
    IF FEq(max_rgb, b) /\ FGt(delta, Num(0)) THEN FAdd(FDiv(FSub(r, g), delta), Num(4))
    ELSE IF FEq(max_rgb, g) /\ FGt(delta, Num(0)) THEN FAdd(FDiv(FSub(b, r), delta), Num(2))
    ELSE IF FEq(max_rgb, r) /\ FGt(delta, Num(0)) THEN FMod(FDiv(FSub(g, b), delta), Num(6))
    ELSE Num(0)

\* Saturation and hue of a pixel from its normalized channels and extremes.
SaturationOf(max_rgb, min_rgb) ==
    IF FGt(max_rgb, Num(0)) THEN FDiv(FSub(max_rgb, min_rgb), max_rgb) ELSE Num(0)
PixelFromExtremes(r, g, b, max_rgb, min_rgb) ==
    [brightness |-> FDiv(FAdd(FAdd(r, g), b), Num(3)),
     saturation |-> SaturationOf(max_rgb, min_rgb),
     hue |-> FMul(HueSector(r, g, b, max_rgb, FSub(max_rgb, min_rgb)), Num(60))]
Pixel(r, g, b) == PixelFromExtremes(r, g, b, FMax(FMax(r, g), b), FMin(FMin(r, g), b))

\* The statistics of the three derived channels over the pixels where all
\* three are finite.
MaskedRgbStatistics(pixels, valid_mask) ==
    [brightness |-> ChannelStatistics([i \in DOMAIN pixels |-> pixels[i].brightness], valid_mask),
     saturation |-> ChannelStatistics([i \in DOMAIN pixels |-> pixels[i].saturation], valid_mask),
     hue |-> ChannelStatistics([i \in DOMAIN pixels |-> pixels[i].hue], valid_mask)]
RgbStatistics(pixels) ==
    MaskedRgbStatistics(pixels,
        {i \in DOMAIN pixels : /\ IsFinite(pixels[i].brightness)
                                /\ IsFinite(pixels[i].saturation)
                                /\ IsFinite(pixels[i].hue)})
NormalizedStatistics(red_norm, green_norm, blue_norm) ==
    RgbStatistics([i \in DOMAIN red_norm |-> Pixel(red_norm[i], green_norm[i], blue_norm[i])])
RgbFromRanges(red, green, blue, red_max, green_max, blue_max, eight_bit) ==
    NormalizedStatistics(
        Normalize(red, MinOf(red.cells, DOMAIN red.cells), red_max, eight_bit),
        Normalize(green, MinOf(green.cells, DOMAIN green.cells), green_max, eight_bit),
        Normalize(blue, MinOf(blue.cells, DOMAIN blue.cells), blue_max, eight_bit))
RgbFromMaxima(red, green, blue, red_max, green_max, blue_max) ==
    RgbFromRanges(red, green, blue, red_max, green_max, blue_max,
        FLe(red_max, Num(255)) /\ FLe(green_max, Num(255)) /\ FLe(blue_max, Num(255)))

\* _calculate_rgb_indices: an unusable operand raises inside the try block and
\* yields the error record; the function itself never raises.
CalculateRgbIndices(red, green, blue) ==
    IF red = Unusable \/ green = Unusable \/ blue = Unusable
    THEN [error |-> "RGB calculation failed"]
    ELSE RgbFromMaxima(red, green, blue,
             MaxOf(red.cells, DOMAIN red.cells), MaxOf(green.cells, DOMAIN green.cells),
             MaxOf(blue.cells, DOMAIN blue.cells))

\* The variable a loop `for name, data in all_bands.items(): if ...: x = data`
\* leaves behind: the data of the last entry whose name takes the branch,
\* None when no entry does.
\* taken holds the entries whose name takes the branch.
LastAssigned(role_map, taken) ==
    IF taken = {} THEN None
    ELSE role_map.items[CHOOSE i \in taken : \A j \in taken : j <= i].value.data
\* name.lower() of every entry
LoweredNames(role_map) == [i \in 1..Size(role_map) |-> Lower(role_map.items[i].key)]

\* The entries a guarded block of assignments adds to a family's dict.
When(condition, entries) == IF condition THEN entries ELSE <<>>
Entry(key, value) == [key |-> key, value |-> value]

\* The indices _calculate_all_vegetation_indices computes from the arrays its
\* loop selected.
VegetationIndices(red, nir, green, swir1) ==
    OrNone(Dict(
        When(red # None /\ nir # None,
             <<Entry("ndvi", SafeIndexCalc(nir, red, NDiff)),
               Entry("savi", SafeIndexCalc(nir, red, Savi)),
               Entry("rvi", SafeIndexCalc(nir, red, Ratio))>>)
        \o When(red # None /\ nir # None /\ green # None,
                <<Entry("gndvi", SafeIndexCalc(nir, green, NDiff))>>)
        \o When(red # None /\ nir # None /\ swir1 # None,
                <<Entry("evi", SafeIndexCalc(nir, red, Evi(swir1)))>>)))

\* _calculate_all_vegetation_indices
CalculateAllVegetationIndices(role_map) ==
    LET IsRed(name) == Contains(name, "red") /\ ~Contains(name, "edge")
        IsNir(name) == ~IsRed(name) /\ Contains(name, "nir")
        IsGreen(name) == ~IsRed(name) /\ ~Contains(name, "nir") /\ Contains(name, "green")
        IsSwir(name) == /\ ~IsRed(name) /\ ~Contains(name, "nir")
                        /\ ~Contains(name, "green") /\ Contains(name, "swir")
        names == LoweredNames(role_map)
    IN  VegetationIndices(LastAssigned(role_map, {i \in DOMAIN names : IsRed(names[i])}),
                          LastAssigned(role_map, {i \in DOMAIN names : IsNir(names[i])}),
                          LastAssigned(role_map, {i \in DOMAIN names : IsGreen(names[i])}),
                          LastAssigned(role_map, {i \in DOMAIN names : IsSwir(names[i])}))

\* The indices _calculate_all_water_indices computes from the arrays its
\* loop selected.
WaterIndices(green, nir, swir1) ==
    OrNone(Dict(
        When(green # None /\ nir # None, <<Entry("ndwi", SafeIndexCalc(green, nir, NDiff))>>)
        \o When(green # None /\ swir1 # None,
                <<Entry("mndwi", SafeIndexCalc(green, swir1, NDiff))>>)
        \o When(nir # None /\ swir1 # None, <<Entry("wri", SafeIndexCalc(nir, swir1, Ratio))>>)))

\* _calculate_all_water_indices
CalculateAllWaterIndices(role_map) ==
    LET IsGreen(name) == Contains(name, "green")
        IsNir(name) == ~IsGreen(name) /\ Contains(name, "nir")
        IsSwir1(name) == ~IsGreen(name) /\ ~Contains(name, "nir") /\ Contains(name, "swir1")
        names == LoweredNames(role_map)
    IN  WaterIndices(LastAssigned(role_map, {i \in DOMAIN names : IsGreen(names[i])}),
                     LastAssigned(role_map, {i \in DOMAIN names : IsNir(names[i])}),
                     LastAssigned(role_map, {i \in DOMAIN names : IsSwir1(names[i])}))

\* The indices _calculate_all_soil_indices computes from the arrays its loop
\* selected.
SoilIndices(red, nir, swir1) ==
    OrNone(Dict(
        When(swir1 # None /\ nir # None, <<Entry("ndbi", SafeIndexCalc(swir1, nir, NDiff))>>)
        \o When(red # None /\ swir1 # None, <<Entry("bsi", SafeIndexCalc(swir1, red, NDiff))>>)))

\* A variant of the soil selection in which every name containing red is red.
CalculateAllSoilIndicesEdgeCounts(role_map) ==
    LET IsRed(name) == Contains(name, "red")
        IsNir(name) == ~IsRed(name) /\ Contains(name, "nir")
        IsSwir1(name) == ~IsRed(name) /\ ~Contains(name, "nir") /\ Contains(name, "swir1")
        names == LoweredNames(role_map)
    IN  SoilIndices(LastAssigned(role_map, {i \in DOMAIN names : IsRed(names[i])}),
                    LastAssigned(role_map, {i \in DOMAIN names : IsNir(names[i])}),
                    LastAssigned(role_map, {i \in DOMAIN names : IsSwir1(names[i])}))

\* _calculate_all_soil_indices
CalculateAllSoilIndices(role_map) ==
    LET IsRed(name) == Contains(name, "red") /\ ~Contains(name, "edge")
        IsNir(name) == ~IsRed(name) /\ Contains(name, "nir")
        IsSwir1(name) == ~IsRed(name) /\ ~Contains(name, "nir") /\ Contains(name, "swir1")
        names == LoweredNames(role_map)
    IN  SoilIndices(LastAssigned(role_map, {i \in DOMAIN names : IsRed(names[i])}),
                    LastAssigned(role_map, {i \in DOMAIN names : IsNir(names[i])}),
                    LastAssigned(role_map, {i \in DOMAIN names : IsSwir1(names[i])}))

\* The statistics of one thermal band, over all its cells.
ThermalStatistics(thermal_data) ==
    [mean_temperature |-> MeanOf(thermal_data.cells, DOMAIN thermal_data.cells),
     min_temperature |-> MinOf(thermal_data.cells, DOMAIN thermal_data.cells),
     max_temperature |-> MaxOf(thermal_data.cells, DOMAIN thermal_data.cells),
     temp_std_squared |-> VarOf(thermal_data.cells, DOMAIN thermal_data.cells)]

\* The loop of _calculate_thermal_indices over the thermal bands: np.mean of
\* an unusable array raises, and the exception propagates to the caller.
ThermalIndices(thermal_bands) ==
    IF \E i \in 1..Len(thermal_bands) : thermal_bands[i].value.data = Unusable
    THEN Raise("TypeError")
    ELSE Return(OrNone(Dict([i \in 1..Len(thermal_bands) |->
             Entry("thermal_band_" \o ToString(i),
                   ThermalStatistics(thermal_bands[i].value.data))])))

\* _calculate_thermal_indices
CalculateThermalIndices(role_map) ==
    ThermalIndices(SelectSeq(role_map.items,
        LAMBDA e : Contains(Lower(e.key), "thermal") \/ Contains(Lower(e.key), "tir")))

\* A variant of the nested loops whose inner loop runs over every other entry.
RECURSIVE PairsFromEveryOrder(_, _, _)
PairsFromEveryOrder(n, i, j) ==
    IF i > n THEN <<>>
    ELSE IF j > n THEN PairsFromEveryOrder(n, i + 1, 1)
    ELSE (IF i # j THEN <<<<i, j>>>> ELSE <<>>) \o PairsFromEveryOrder(n, i, j + 1)

\* The pairs (i, j) of role-map entries the nested loops of
\* _calculate_custom_indices visit, in the order they visit them.
RECURSIVE PairsFrom(_, _, _)
PairsFrom(n, i, j) ==
    IF i > n THEN <<>>
    ELSE IF j > n THEN PairsFrom(n, i + 1, i + 2)
    ELSE <<<<i, j>>>> \o PairsFrom(n, i, j + 1)

CustomPairs(role_map) == PairsFrom(Size(role_map), 1, 2)

\* A variant of the guarded store that also stores a None result.
PutAnyResult(dict, key, value) == Put(dict, key, value)

\* `if x is not None: indices[key] = x` for a result of _safe_index_calc.
PutResult(dict, key, value) == IF value # None THEN Put(dict, key, value) ELSE dict
PairKey(role_map, pair, suffix) ==
    role_map.items[pair[1]].key \o "_" \o role_map.items[pair[2]].key \o suffix
PairResult(role_map, pair, f) ==
    SafeIndexCalc(role_map.items[pair[1]].value.data, role_map.items[pair[2]].value.data, f)

\* The body of the nested loops of _calculate_custom_indices, folded over
\* the visited pairs from the k-th on.
RECURSIVE CustomIndicesFrom(_, _, _, _)
CustomIndicesFrom(role_map, pairs, k, dict) ==
    IF k > Len(pairs) THEN dict
    ELSE CustomIndicesFrom(role_map, pairs, k + 1,
             PutResult(PutResult(dict, PairKey(role_map, pairs[k], "_ratio"),
                                 PairResult(role_map, pairs[k], Ratio)),
                       PairKey(role_map, pairs[k], "_ndiff"),
                       PairResult(role_map, pairs[k], NDiff)))

\* _calculate_custom_indices
CalculateCustomIndices(role_map) ==
    OrNone(CustomIndicesFrom(role_map, CustomPairs(role_map), 1, EmptyDict))

\* band_means of _analyze_spectral_signatures: per role, the mean over the
\* finite cells, when there are any.
RECURSIVE BandMeansFrom(_, _, _)
BandMeansFrom(role_map, i, band_means) ==
    IF i > Size(role_map) THEN band_means
    ELSE LET cells == role_map.items[i].value.data.cells
             finite == {c \in DOMAIN cells : IsFinite(cells[c])}
         IN  BandMeansFrom(role_map, i + 1,
                 IF finite # {} THEN Put(band_means, role_map.items[i].key, MeanOf(cells, finite))
                 ELSE band_means)

\* band_wavelengths of _analyze_spectral_signatures: for role i, the inner
\* loop over band_info from entry j on.
RECURSIVE BandWavelengthsFrom(_, _, _, _, _)
BandWavelengthsFrom(role_map, info, i, j, band_wavelengths) ==
    IF i > Size(role_map) THEN band_wavelengths
    ELSE IF j > Size(info) THEN BandWavelengthsFrom(role_map, info, i + 1, 1, band_wavelengths)
    ELSE BandWavelengthsFrom(role_map, info, i, j + 1,
             IF info.items[j].value.detected_type = role_map.items[i].key
                /\ Truthy(info.items[j].value.wavelength)
             THEN Put(band_wavelengths, role_map.items[i].key, info.items[j].value.wavelength)
             ELSE band_wavelengths)

\* sorted(band_wavelengths.items(), key=lambda x: x[1]): a stable sort, built
\* by inserting each item after the items that are not greater.
InsertByWavelength(sorted_bands, item) ==
    LET before == Cardinality({i \in 1..Len(sorted_bands) :
                                  FLe(sorted_bands[i].value, item.value)})
    IN  SubSeq(sorted_bands, 1, before) \o <<item>>
            \o SubSeq(sorted_bands, before + 1, Len(sorted_bands))
RECURSIVE SortedFrom(_, _, _)
SortedFrom(items, i, sorted_bands) ==
    IF i > Len(items) THEN sorted_bands
    ELSE SortedFrom(items, i + 1, InsertByWavelength(sorted_bands, items[i]))

\* abs(x) of a float
FAbs(x) == IF IsNaN(x) THEN NaN ELSE [x EXCEPT !.n = Abs(x.n)]
\* slopes.index(max(slopes, key=abs)): max keeps the first of the largest
SteepestPosition(slopes) ==
    CHOOSE i \in 1..Len(slopes) :
        /\ \A j \in 1..Len(slopes) : FLe(FAbs(slopes[j]), FAbs(slopes[i]))
        /\ \A j \in 1..(i - 1) : FLt(FAbs(slopes[j]), FAbs(slopes[i]))

\* curve_analysis once the slopes are computed
CurveOf(wavelengths, reflectances, slopes) ==
    [wavelengths |-> wavelengths, reflectances |-> reflectances, slopes |-> slopes,
     overall_trend |-> IF FGt(SumOf(slopes, DOMAIN slopes), Num(0)) THEN "increasing"
                       ELSE "decreasing",
     steepest_change |-> [slope |-> slopes[SteepestPosition(slopes)],
                          position |-> SteepestPosition(slopes) - 1]]
\* The slope loop: a division of Python floats by 0.0 raises
\* ZeroDivisionError, and the except clause leaves only the error.
CurveFrom(wavelengths, reflectances) ==
    IF \E i \in 1..(Len(wavelengths) - 1) : FSub(wavelengths[i + 1], wavelengths[i]) = Num(0)
    THEN [error |-> "float division by zero"]
    ELSE CurveOf(wavelengths, reflectances,
                 [i \in 1..(Len(wavelengths) - 1) |->
                     FDiv(FSub(reflectances[i + 1], reflectances[i]),
                          FSub(wavelengths[i + 1], wavelengths[i]))])
\* band_means.get(band, 0)
MeanOrZero(band_means, band) == IF Has(band_means, band) THEN Get(band_means, band) ELSE Num(0)
CurveOfSorted(band_means, sorted_bands) ==
    CurveFrom([i \in 1..Len(sorted_bands) |-> sorted_bands[i].value],
              [i \in 1..Len(sorted_bands) |-> MeanOrZero(band_means, sorted_bands[i].key)])

\* _analyze_spectral_curve, called with three or more wavelengths
AnalyzeSpectralCurve(band_means, band_wavelengths) ==
    CurveOfSorted(band_means, SortedFrom(band_wavelengths.items, 1, <<>>))

\* The variable a branch of the loop of _classify_surface_materials leaves
\* behind: the mean of the last role whose wavelength takes the branch, None
\* when no role does.
LastMean(band_means, band_wavelengths, taken) ==
    IF taken = {} THEN None
    ELSE MeanOrZero(band_means,
                    band_wavelengths.items[CHOOSE i \in taken : \A j \in taken : j <= i].key)
Between(lo, w, hi) == FLe(Num(lo), w) /\ FLe(w, Num(hi))

\* The hints appended for the three values and the brightness test, in order.
Hint(material, confidence) == [material |-> material, confidence |-> confidence]
\* overall_brightness > np.std(...) * 3, for the mean and the variance of
\* the band means
BrightSurface(mean, variance) ==
    FGt(mean, Num(0)) /\ FGt(FMul(mean, mean), FMul(Num(9), variance))

\* A variant of the hints in which a mean of 0 counts as a value.
HintsFromAnyValue(red_val, nir_val, swir_val, bright) ==
    When(red_val # None /\ nir_val # None /\ FGt(nir_val, FMul(red_val, Fin(3, 2))),
         <<Hint("healthy_vegetation", "high")>>)
    \o When(red_val # None /\ nir_val # None /\ ~FGt(nir_val, FMul(red_val, Fin(3, 2)))
                /\ FLt(nir_val, red_val),
            <<Hint("bare_soil_or_urban", "medium")>>)
    \o When(Truthy(nir_val) /\ Truthy(swir_val) /\ FLt(nir_val, FMul(swir_val, Fin(1, 2))),
            <<Hint("water_body", "medium")>>)
    \o When(bright, <<Hint("bright_surface", "low")>>)

HintsFrom(red_val, nir_val, swir_val, bright) ==
    When(Truthy(red_val) /\ Truthy(nir_val) /\ FGt(nir_val, FMul(red_val, Fin(3, 2))),
         <<Hint("healthy_vegetation", "high")>>)
    \o When(Truthy(red_val) /\ Truthy(nir_val) /\ ~FGt(nir_val, FMul(red_val, Fin(3, 2)))
                /\ FLt(nir_val, red_val),
            <<Hint("bare_soil_or_urban", "medium")>>)
    \o When(Truthy(nir_val) /\ Truthy(swir_val) /\ FLt(nir_val, FMul(swir_val, Fin(1, 2))),
            <<Hint("water_body", "medium")>>)
    \o When(bright, <<Hint("bright_surface", "low")>>)

\* np.mean of the band means exceeds three times their np.std (of no band
\* means, the mean is NaN and the test fails)
OverallBright(means) ==
    Len(means) > 0 /\ BrightSurface(MeanOf(means, DOMAIN means), VarOf(means, DOMAIN means))

\* _classify_surface_materials: the if/elif chain on each wavelength, then
\* the tests on the values it found.
ClassifySurfaceMaterials(band_means, band_wavelengths) ==
    LET w == [i \in 1..Size(band_wavelengths) |-> band_wavelengths.items[i].value]
        IsRed(i) == Between(600, w[i], 700)
        IsNir(i) == ~IsRed(i) /\ Between(700, w[i], 900)
        IsSwir(i) == ~IsRed(i) /\ ~Between(700, w[i], 900) /\ Between(1000, w[i], 2500)
    IN  HintsFrom(LastMean(band_means, band_wavelengths, {i \in DOMAIN w : IsRed(i)}),
                  LastMean(band_means, band_wavelengths, {i \in DOMAIN w : IsNir(i)}),
                  LastMean(band_means, band_wavelengths, {i \in DOMAIN w : IsSwir(i)}),
                  OverallBright([i \in 1..Size(band_means) |-> band_means.items[i].value]))

\* The analysis _analyze_spectral_signatures fills from band_means and
\* band_wavelengths: the profile, the wavelengths, the curve when three or
\* more roles have a wavelength, and the material hints.
AnalysisOf(band_means, band_wavelengths) ==
    [spectral_profile |-> [band_means |-> band_means],
     wavelength_info |-> [detected_wavelengths |-> band_wavelengths],
     spectral_curve |-> IF Size(band_wavelengths) >= 3
                        THEN AnalyzeSpectralCurve(band_means, band_wavelengths)
                        ELSE None,
     surface_material_hints |-> ClassifySurfaceMaterials(band_means, band_wavelengths)]

\* _analyze_spectral_signatures, without the correlations and the
\* atmospheric analysis (both keep their exceptions to themselves):
\* np.isfinite of an unusable array raises inside the try block before any
\* section is filled, and the function then returns None.
AnalyzeSpectralSignatures(role_map, info) ==
    IF \E i \in 1..Size(role_map) : role_map.items[i].value.data = Unusable THEN None
    ELSE AnalysisOf(BandMeansFrom(role_map, 1, EmptyDict),
                    BandWavelengthsFrom(role_map, info, 1, 1, EmptyDict))

(***************************************************************************)
(* Inputs of the classifier.                                               *)
(***************************************************************************)
RoleKeywords == UNION {{patterns[i].keywords[j] : j \in 1..Len(patterns[i].keywords)} :
                       i \in 1..Len(patterns)}

\* One description per table keyword, every ordered pair of a short keyword of
\* each role, and some descriptions as sensors write them.
PairKeywords == {"blue", "green", "red", "nir", "red edge", "swir", "swir2", "tir",
                 "pan", "cirrus", "aerosol", "dsr", "direct", "diffuse"}
KeywordDescriptions ==
    RoleKeywords
    \cup {a \o " " \o b : a \in PairKeywords, b \in PairKeywords}
    \cup {"Red", "NIR", "Band 4 (NIR)", "B8A", "Blue Red NIR", "Near Infrared", "Infrared"}
PlainDescriptions == {"", "Band"}

WavelengthTexts ==
    {"", "abc", "nan", "inf", "-inf", "0", "-5", "399.9", "400", "450", "500", "500.0",
     "550", "600", "650", "700", "800", "900", "950.7", "1000", "1500", "1800", "2000",
     "2500", "3000", "8000", "10000", "15000", "20000"}
MetadataEntries ==
    ({"wavelength"} \X WavelengthTexts)
    \cup ({"Center_Lambda"} \X {"", "650", "0"})
    \cup ({"units"} \X {"nm", "650"})

\* Metadata maps: up to MaxMetadataEntries entries with distinct keys, in
\* iteration order.
Metadatas ==
    UNION {{m \in [1..n -> MetadataEntries] :
                \A i, j \in 1..n : i # j => m[i][1] # m[j][1]} :
           n \in 0..MaxMetadataEntries}
FewMetadatas == {<<>>, <<<<"wavelength", "650">>>>}

(***************************************************************************)
(* Specification of the classifier: _identify_band_type applied to one     *)
(* (description, metadata, position) triple.                               *)
(***************************************************************************)
IdleCalc ==
    /\ band1 = None /\ band2 = None /\ formula = "" /\ calc_result = None
IdlePipeline ==
    /\ dataset = <<>> /\ band_info = None /\ all_bands = EmptyDict
    /\ indices = None /\ rgb_bands = None /\ custom_pairs = <<>>
IdleClassifier ==
    /\ description = "" /\ metadata = <<>> /\ band_index = 0 /\ detected = None
    /\ found_wavelength = None
IdleSerializer ==
    /\ obj = None /\ sanitized = None /\ resanitized = None
IdleSensor ==
    /\ raw_metadata = None /\ all_metadata = None /\ detected_sensor = None /\ parsed_info = None
IdleCorrelation == correlations = None
IdleExtract ==
    /\ argv = <<>> /\ file = None /\ raised = None /\ raw_data = None
    /\ extracted_data = None /\ stdout = <<>> /\ exit_code = None
IdleOutside == IdleSerializer /\ IdleSensor /\ IdleCorrelation /\ IdleExtract

InitClassify ==
    /\ pc = "input"
    /\ detected = None
    /\ found_wavelength = None
    /\ band_index \in 0..MaxPosition
    /\ \/ description \in KeywordDescriptions /\ metadata \in FewMetadatas
       \/ description \in PlainDescriptions /\ metadata \in Metadatas
    /\ IdleCalc
    /\ IdlePipeline
    /\ IdleOutside

Classify ==
    /\ pc = "input"
    /\ detected' = IdentifyBandType(description, metadata, band_index)
    /\ found_wavelength' = IF MatchPatterns(Lower(description), 1) # None THEN None
                           ELSE ExtractWavelength(metadata)
    /\ pc' = "classified"
    /\ UNCHANGED <<description, metadata, band_index, band1, band2, formula, calc_result,
                   dataset, band_info, all_bands, indices, rgb_bands, custom_pairs,
                   NotEngine>>

NextClassify == Classify

SpecClassify == InitClassify /\ [][NextClassify]_vars

(***************************************************************************)
(* Specification of the numeric safety layer: _safe_index_calc applied to  *)
(* two arrays of one raster and a formula.                                 *)
(***************************************************************************)
CellValues == {Num(0), Num(1), Num(-1), NaN, PInf}
Arrays(n) == {Array(cells) : cells \in [1..n -> CellValues]} \cup {Unusable}
Formulas == {Ratio, NDiff, Savi}

InitCalc ==
    /\ pc = "operands"
    /\ \E n \in 1..MaxPixels : band1 \in Arrays(n) /\ band2 \in Arrays(n)
    /\ formula \in Formulas
    /\ calc_result = None
    /\ IdleClassifier
    /\ IdlePipeline
    /\ IdleOutside

Calculate ==
    /\ pc = "operands"
    /\ calc_result' = SafeIndexCalc(band1, band2, formula)
    /\ pc' = "calculated"
    /\ UNCHANGED <<description, metadata, band_index, detected, found_wavelength, band1, band2,
                   formula, dataset, band_info, all_bands, indices, rgb_bands, custom_pairs,
                   NotEngine>>

NextCalc == Calculate

SpecCalc == InitCalc /\ [][NextCalc]_vars

(***************************************************************************)
(* Specification of _compute_all_indices on one opened raster.             *)
(***************************************************************************)
\* indices = {}: every family is absent.
NoIndices ==
    [band_detection |-> None, rgb |-> None, vegetation |-> None, water |-> None,
     soil |-> None, thermal |-> None, custom |-> None, spectral_analysis |-> None,
     error |-> None]

Band(desc, md, data) == [description |-> desc, metadata |-> md, data |-> data]

\* The bands a raster is made of: an undescribed band, described red and
\* thermal bands, a band with an out-of-range wavelength and one whose
\* wavelength text is not a finite number; each with readable or unreadable
\* pixels.
BandProfiles ==
    {<<"", <<>>>>, <<"Red", <<>>>>, <<"Thermal", <<>>>>,
     <<"", <<<<"wavelength", "950">>>>>>, <<"", <<<<"wavelength", "nan">>>>>>}
BandArrays == {Array(<<Num(1), Num(2)>>), Unusable}
Bands == {Band(p[1], p[2], a) : p \in BandProfiles, a \in BandArrays}

\* Rasters none of whose bands can get a named role: every band carries an
\* out-of-range wavelength (or, for contrast, is described as red).
UnrecognizedProfiles ==
    {<<"", <<<<"wavelength", "950">>>>>>, <<"", <<<<"wavelength", "3000">>>>>>,
     <<"", <<<<"wavelength", "5000">>>>>>, <<"Red", <<>>>>}
UnrecognizedArrays == {Array(<<Num(0), Num(0)>>), Array(<<Num(1), Num(2)>>)}
UnrecognizedBands ==
    {Band(p[1], p[2], a) : p \in UnrecognizedProfiles, a \in UnrecognizedArrays}

InitPipeline(band_set) ==
    /\ pc = "start"
    /\ \E n \in 1..MaxBands : dataset \in [1..n -> band_set]
    /\ band_info = None
    /\ all_bands = EmptyDict
    /\ indices = NoIndices
    /\ rgb_bands = None
    /\ custom_pairs = <<>>
    /\ IdleClassifier
    /\ IdleCalc
    /\ IdleOutside

Init == InitPipeline(Bands)
InitUnrecognized == InitPipeline(UnrecognizedBands)

NotPipeline == <<description, metadata, band_index, detected, found_wavelength, band1, band2,
                 formula, calc_result, NotEngine>>

\* except Exception as e: indices["error"] = ...; return indices
Failed(e) == [indices EXCEPT !.error = Some("Failed to calculate indices: " \o e)]

\* 1. band_info = self._detect_band_types()
DetectBands ==
    /\ pc = "start"
    /\ LET r == DetectBandTypes(dataset)
       IN  IF r.kind = "raise"
           THEN /\ indices' = Failed(r.value)
                /\ pc' = "done"
                /\ UNCHANGED band_info
           ELSE /\ band_info' = r.value
                /\ indices' = [indices EXCEPT !.band_detection = r.value]
                /\ pc' = "role_map"
    /\ UNCHANGED <<dataset, all_bands, rgb_bands, custom_pairs, NotPipeline>>

\* 2. the loop filling all_bands
BuildAllBands ==
    /\ pc = "role_map"
    /\ all_bands' = BuildRoleMap(dataset, band_info, 1, EmptyDict)
    /\ pc' = "rgb"
    /\ UNCHANGED <<dataset, band_info, indices, rgb_bands, custom_pairs, NotPipeline>>

\* 3. RGB analysis
RgbStep ==
    /\ pc = "rgb"
    /\ rgb_bands' = FindRgbBands(all_bands, band_info)
    /\ indices' = IF rgb_bands' # None
                  THEN [indices EXCEPT !.rgb = CalculateRgbIndices(
                            Get(rgb_bands', "red").data, Get(rgb_bands', "green").data,
                            Get(rgb_bands', "blue").data)]
                  ELSE indices
    /\ pc' = "vegetation"
    /\ UNCHANGED <<dataset, band_info, all_bands, custom_pairs, NotPipeline>>

\* 4. vegetation indices
VegetationStep ==
    /\ pc = "vegetation"
    /\ indices' = [indices EXCEPT !.vegetation = CalculateAllVegetationIndices(all_bands)]
    /\ pc' = "water"
    /\ UNCHANGED <<dataset, band_info, all_bands, rgb_bands, custom_pairs, NotPipeline>>

\* 5. water indices
WaterStep ==
    /\ pc = "water"
    /\ indices' = [indices EXCEPT !.water = CalculateAllWaterIndices(all_bands)]
    /\ pc' = "soil"
    /\ UNCHANGED <<dataset, band_info, all_bands, rgb_bands, custom_pairs, NotPipeline>>

\* 6. soil/urban indices
SoilStep ==
    /\ pc = "soil"
    /\ indices' = [indices EXCEPT !.soil = CalculateAllSoilIndices(all_bands)]
    /\ pc' = "thermal"
    /\ UNCHANGED <<dataset, band_info, all_bands, rgb_bands, custom_pairs, NotPipeline>>

\* 7. thermal analysis; an exception leaves through the except clause
ThermalStep ==
    /\ pc = "thermal"
    /\ LET r == CalculateThermalIndices(all_bands)
       IN  IF r.kind = "raise"
           THEN indices' = Failed(r.value) /\ pc' = "done"
           ELSE indices' = [indices EXCEPT !.thermal = r.value] /\ pc' = "custom"
    /\ UNCHANGED <<dataset, band_info, all_bands, rgb_bands, custom_pairs, NotPipeline>>

\* 8. custom all-pairs indices
CustomStep ==
    /\ pc = "custom"
    /\ indices' = [indices EXCEPT !.custom = CalculateCustomIndices(all_bands)]
    /\ custom_pairs' = [k \in 1..Len(CustomPairs(all_bands)) |->
                            <<all_bands.items[CustomPairs(all_bands)[k][1]].value.band,
                              all_bands.items[CustomPairs(all_bands)[k][2]].value.band>>]
    /\ pc' = "spectral"
    /\ UNCHANGED <<dataset, band_info, all_bands, rgb_bands, NotPipeline>>

\* 9. spectral analysis, then return indices
SpectralStep ==
    /\ pc = "spectral"
    /\ indices' = [indices EXCEPT
                       !.spectral_analysis = AnalyzeSpectralSignatures(all_bands, band_info)]
    /\ pc' = "done"
    /\ UNCHANGED <<dataset, band_info, all_bands, rgb_bands, custom_pairs, NotPipeline>>

Next ==
    \/ DetectBands
    \/ BuildAllBands
    \/ RgbStep
    \/ VegetationStep
    \/ WaterStep
    \/ SoilStep
    \/ ThermalStep
    \/ CustomStep
    \/ SpectralStep

Spec == Init /\ [][Next]_vars
SpecUnrecognized == InitUnrecognized /\ [][Next]_vars

(***************************************************************************)
(* Properties of the classifier (checked under SpecClassify).              *)
(***************************************************************************)
Classified == pc = "classified"
NoKeywordMatches == MatchPatterns(Lower(description), 1) = None
RoleMatches(i) == AnyKeyword(Lower(description), patterns[i].keywords)
RoleIndex(role) == CHOOSE i \in 1..Len(patterns) : patterns[i].role = role

\* C1: for every description, metadata map and position, including a
\* wavelength value that is empty, non-numeric or parses to a non-finite
\* number, _identify_band_type returns a role and never raises.
ClaimC1_NeverRaises ==
    Classified => detected.kind = "return"

\* C2: the role returned for a description with a keyword match is the first
\* role of the table order having a keyword that is a substring of the
\* lower-cased description; with a red and a nir keyword the role is never
\* nir, and it is red when no earlier role (blue, green) matches too.
ClaimC2_FirstRoleInTableOrder ==
    Classified =>
        /\ \A i \in 1..Len(patterns) :
               (RoleMatches(i) /\ \A j \in 1..(i - 1) : ~RoleMatches(j))
                   => detected = Return(patterns[i].role)
        /\ (RoleMatches(RoleIndex("red")) /\ RoleMatches(RoleIndex("nir")))
               => /\ detected # Return("nir")
                  /\ (~RoleMatches(RoleIndex("blue")) /\ ~RoleMatches(RoleIndex("green")))
                         => detected = Return("red")
WitnessC2_RedBeforeNir ==
    /\ Classified
    /\ Contains(Lower(description), "red") /\ Contains(Lower(description), "nir")
    /\ detected = Return("red")

\* The wavelength ranges and the positional table as C3 states them.
ListedRanges == <<
    [lo |-> 400, hi |-> 500, role |-> "blue"], [lo |-> 500, hi |-> 600, role |-> "green"],
    [lo |-> 600, hi |-> 700, role |-> "red"], [lo |-> 700, hi |-> 900, role |-> "nir"],
    [lo |-> 1000, hi |-> 1800, role |-> "swir1"], [lo |-> 1800, hi |-> 2500, role |-> "swir2"],
    [lo |-> 8000, hi |-> 15000, role |-> "thermal"] >>
RangeRoles(w) ==
    {ListedRanges[i].role : i \in {j \in 1..Len(ListedRanges) :
        FLe(Num(ListedRanges[j].lo), w) /\ FLe(w, Num(ListedRanges[j].hi))}}
PositionalRole(p) ==
    CASE p = 0 -> "blue" [] p = 1 -> "green" [] p = 2 -> "red" [] p = 3 -> "nir"
      [] p = 4 -> "swir1" [] p = 5 -> "swir2" [] p = 6 -> "thermal"
      [] OTHER -> "band_" \o ToString(p + 1)
PositionalRoles == {PositionalRole(p) : p \in 0..(MaxPosition + 1)}

\* C3: with no keyword match, a parsed wavelength (any numeric value,
\* including 0) decides the role: inside a listed range it yields a role of
\* that range, and the positional table is used only when no wavelength was
\* found.
ClaimC3_WavelengthTierDecides ==
    (Classified /\ NoKeywordMatches) =>
        LET w == ExtractWavelength(metadata)
        IN  /\ (w # None /\ RangeRoles(w) # {})
                   => (detected.kind = "return" /\ detected.value \in RangeRoles(w))
            /\ (w # None /\ RangeRoles(w) = {})
                   => ~(detected.kind = "return" /\ detected.value \in PositionalRoles)
            /\ (w = None) => detected = Return(PositionalRole(band_index))

\* C4 as stated: with no keyword match, a wavelength of exactly 500.0 nm
\* classifies as green.
ClaimC4_FiveHundredIsGreen ==
    (Classified /\ NoKeywordMatches /\ ExtractWavelength(metadata) = Num(500))
        => detected = Return("green")

\* C4 as amended: with no keyword match, a wavelength of exactly 500.0 nm
\* classifies as blue (the 400-500 range is tested first).
ClaimC4_FiveHundredIsBlue ==
    (Classified /\ NoKeywordMatches /\ ExtractWavelength(metadata) = Num(500))
        => detected = Return("blue")
WitnessC4_FiveHundred ==
    /\ Classified /\ NoKeywordMatches
    /\ ExtractWavelength(metadata) = Num(500)
    /\ detected = Return("blue")

(***************************************************************************)
(* Properties of the numeric safety layer (checked under SpecCalc).        *)
(***************************************************************************)
Calculated == pc = "calculated"
CalcRaises == band1 = Unusable \/ band2 = Unusable
FormulaCell(i) == ApplyFormula(formula, band1.cells[i], band2.cells[i], i)
FiniteCells == {i \in DOMAIN band1.cells : IsFinite(FormulaCell(i))}

\* C10: _safe_index_calc returns None exactly when the computation raises or
\* no cell of the elementwise result is finite; otherwise its statistics are
\* those of the finite cells only and valid_pixels is their number, between 1
\* and the number of cells of the input.
ClaimC10_StatisticsOverFiniteCells ==
    Calculated =>
        /\ (calc_result = None) <=> (CalcRaises \/ FiniteCells = {})
        /\ (calc_result # None) =>
              /\ calc_result.valid_pixels = Cardinality(FiniteCells)
              /\ 1 <= calc_result.valid_pixels
              /\ calc_result.valid_pixels <= Len(band1.cells)
              /\ \E i \in FiniteCells : calc_result.min = FormulaCell(i)
              /\ \E i \in FiniteCells : calc_result.max = FormulaCell(i)
              /\ \A i \in FiniteCells :
                     FLe(calc_result.min, FormulaCell(i)) /\ FLe(FormulaCell(i), calc_result.max)
              /\ IsFinite(calc_result.mean)
              /\ FLe(calc_result.min, calc_result.mean)
              /\ FLe(calc_result.mean, calc_result.max)
              /\ FMul(calc_result.mean, Num(Cardinality(FiniteCells)))
                     = SumOf([i \in FiniteCells |-> FormulaCell(i)], FiniteCells)
              /\ IsFinite(calc_result.std_squared)
WitnessC10_SomeCellsFiltered ==
    /\ Calculated
    /\ calc_result # None
    /\ calc_result.valid_pixels = 1
    /\ Len(band1.cells) = 2
    /\ \E i \in DOMAIN band1.cells : FormulaCell(i) = PInf

(***************************************************************************)
(* Properties of the index catalogue (checked under Spec and, for files    *)
(* without a recognized band, under SpecUnrecognized).                     *)
(***************************************************************************)
\* The role map is built once band detection has returned, and stays as built.
RoleMapBuilt == band_info # None /\ pc \notin {"start", "role_map"}
Finished == band_info # None /\ pc = "done"
RoleOf(i) == BandName(band_info, i)
BandsWithRole(role) == {i \in 1..Len(dataset) : RoleOf(i) = role}
EntriesOf(role) == {k \in 1..Size(all_bands) : all_bands.items[k].key = role}
Highest(band_numbers) == CHOOSE i \in band_numbers : \A j \in band_numbers : j <= i

\* C5: once the role map is built, every role assigned to one or more bands
\* maps to exactly one array, the one of the highest-numbered band that was
\* assigned the role.
ClaimC5_LastBandWins ==
    RoleMapBuilt =>
        \A i \in 1..Len(dataset) :
            /\ Cardinality(EntriesOf(RoleOf(i))) = 1
            /\ Get(all_bands, RoleOf(i)) =
                   [band |-> Highest(BandsWithRole(RoleOf(i))),
                    data |-> dataset[Highest(BandsWithRole(RoleOf(i)))].data]
WitnessC5_TwoBandsOneRole ==
    /\ RoleMapBuilt
    /\ \E i, j \in 1..Len(dataset) :
           /\ i < j /\ RoleOf(i) = RoleOf(j)
           /\ dataset[i].data # dataset[j].data
           /\ Get(all_bands, RoleOf(i)).data = dataset[j].data

\* C6: the custom step evaluates each unordered pair of bands of the file
\* exactly once: n(n-1)/2 pairs for a file with n bands, none skipped and
\* none evaluated twice.
ClaimC6_EveryBandPairOnce ==
    (band_info # None /\ pc = "spectral") =>
        /\ 2 * Len(custom_pairs) = Len(dataset) * (Len(dataset) - 1)
        /\ \A i, j \in 1..Len(dataset) :
               i < j => Cardinality({k \in 1..Len(custom_pairs) :
                            {custom_pairs[k][1], custom_pairs[k][2]} = {i, j}}) = 1

\* A file without a recognized band: no key of the role map is a role of the
\* pattern table.
RecognizedRoles == {patterns[i].role : i \in 1..Len(patterns)}
NoRecognizedBand == \A k \in 1..Size(all_bands) : all_bands.items[k].key \notin RecognizedRoles
EntryCells(k) == all_bands.items[k].value.data.cells
SomeFiniteCell(k1, k2) ==
    \E c \in DOMAIN EntryCells(k1) :
        \/ IsFinite(FDiv(EntryCells(k1)[c], EntryCells(k2)[c]))
        \/ IsFinite(FDiv(FSub(EntryCells(k1)[c], EntryCells(k2)[c]),
                         FAdd(EntryCells(k1)[c], EntryCells(k2)[c])))
FirstThreeRgb ==
    CalculateRgbIndices(all_bands.items[1].value.data, all_bands.items[2].value.data,
                        all_bands.items[3].value.data)

HasRgbRoles == Has(all_bands, "red") /\ Has(all_bands, "green") /\ Has(all_bands, "blue")
RgbAfter == band_info # None /\ pc \notin {"start", "role_map", "rgb"}
NamedRgb ==
    CalculateRgbIndices(Get(all_bands, "red").data, Get(all_bands, "green").data,
                        Get(all_bands, "blue").data)

\* C8 as stated: the rgb family appears if and only if the role map contains
\* the roles red, green and blue, and is then computed from their arrays.
ClaimC8_RgbIffThreeRoles ==
    RgbAfter =>
        /\ (indices.rgb # None) <=> HasRgbRoles
        /\ HasRgbRoles => (indices.rgb = NamedRgb)

\* C8 as amended: the rgb family appears if and only if the role map
\* contains red, green and blue or has at least three entries; it is
\* computed from the arrays of red, green and blue when all three are
\* present, and otherwise from the first three entries of the role map, in
\* insertion order, as red, green and blue.
ClaimC8_RgbIffThreeRolesOrThreeEntries ==
    RgbAfter =>
        /\ (indices.rgb # None) <=> (HasRgbRoles \/ Size(all_bands) >= 3)
        /\ HasRgbRoles => (indices.rgb = NamedRgb)
        /\ (~HasRgbRoles /\ Size(all_bands) >= 3) => (indices.rgb = FirstThreeRgb)
WitnessC8_RgbFromFirstThree ==
    /\ RgbAfter
    /\ indices.rgb # None
    /\ ~HasRgbRoles
    /\ Get(rgb_bands, "red") = all_bands.items[1].value

\* C9: when one family raises (thermal statistics over an unusable array),
\* the failure is that family's alone: no top-level error is recorded and
\* every other family is still computed from the role map and appears in
\* the result.
ClaimC9_FailureStaysInFamily ==
    Finished =>
        /\ indices.error = None
        /\ indices.vegetation = CalculateAllVegetationIndices(all_bands)
        /\ indices.water = CalculateAllWaterIndices(all_bands)
        /\ indices.soil = CalculateAllSoilIndices(all_bands)
        /\ indices.custom = CalculateCustomIndices(all_bands)
        /\ indices.spectral_analysis = AnalyzeSpectralSignatures(all_bands, band_info)

(***************************************************************************)
(* JSON sanitization (safe_json_serialize).                                *)
(*                                                                         *)
(* A Python value is a float (as above), None, or one of the records       *)
(* below.  A numpy scalar carries the Python value its item() returns; a   *)
(* numpy array of several elements carries the text str() gives for it.    *)
(***************************************************************************)
MaxItems == 2

Str(text) == [k |-> "str", v |-> text]
PyInt(i) == [k |-> "int", v |-> i]
NumpyScalar(v) == [k |-> "numpy", v |-> v]
NdArray(text) == [k |-> "ndarray", text |-> text]
List(items) == [k |-> "list", items |-> items]
Tuple(items) == [k |-> "tuple", items |-> items]

\* isinstance(obj, float)
IsFloat(o) == o.k \in {"fin", "nan", "inf"}
\* str(obj) of a float: the text of a finite float is made of digits, a sign,
\* a point and an exponent.
StrOfFloat(x) ==
    IF IsNaN(x) THEN "nan"
    ELSE IF x = PInf THEN "inf"
    ELSE IF x = NInf THEN "-inf"
    ELSE ToString(x.n) \o "/" \o ToString(x.d)

\* A variant of the float test that forgets the negative infinity.
NotJsonNumberUnsigned(x) == StrOfFloat(x) \in {"nan", "inf"}

\* str(obj) == 'nan' or str(obj) == 'inf' or str(obj) == '-inf'
NotJsonNumber(x) == StrOfFloat(x) \in {"nan", "inf", "-inf"}

\* safe_json_serialize: the isinstance chain, then hasattr(obj, 'item') for
\* numpy values (item() of an array of several elements raises, and the
\* bare except returns str(obj)), then the value itself.
RECURSIVE SafeJsonSerialize(_)
SafeJsonSerialize(o) ==
    IF IsFloat(o) THEN (IF NotJsonNumber(o) THEN None ELSE o)
    ELSE IF o.k = "dict"
         THEN Dict([i \in DOMAIN o.items |->
                  [key |-> o.items[i].key, value |-> SafeJsonSerialize(o.items[i].value)]])
    ELSE IF o.k = "list" THEN List([i \in DOMAIN o.items |-> SafeJsonSerialize(o.items[i])])
    ELSE IF o.k = "tuple" THEN Tuple([i \in DOMAIN o.items |-> SafeJsonSerialize(o.items[i])])
    ELSE IF o.k = "ndarray" THEN Str(o.text)
    ELSE IF o.k = "numpy"
         THEN (IF IsFloat(o.v) /\ NotJsonNumber(o.v) THEN None ELSE o.v)
    ELSE o

\* The arguments of the sanitizer: scalars, containers of scalars, containers
\* of containers, and a mapping of a tuple of a list.
Scalars ==
    {Num(1), NaN, PInf, NInf, None, Str("nan"), PyInt(0),
     NumpyScalar(NaN), NumpyScalar(NInf), NumpyScalar(Num(2))}
Keyed(items) == Dict([i \in DOMAIN items |-> [key |-> "k" \o ToString(i), value |-> items[i]]])
ContainersOf(sequences) ==
    {List(q) : q \in sequences} \cup {Tuple(q) : q \in sequences}
        \cup {Keyed(q) : q \in sequences}
FlatContainers == ContainersOf(UNION {[1..n -> Scalars] : n \in 0..MaxItems})
NestedContainers ==
    ContainersOf({<<c>> : c \in FlatContainers} \cup {<<NaN, c>> : c \in FlatContainers})
DeepContainers == {Keyed(<<Tuple(<<List(<<x, Num(1)>>)>>)>>) : x \in Scalars}
Structures == Scalars \cup FlatContainers \cup NestedContainers \cup DeepContainers

InitSerialize ==
    /\ pc = "value"
    /\ obj \in Structures
    /\ sanitized = None /\ resanitized = None
    /\ IdleClassifier /\ IdleCalc /\ IdlePipeline /\ IdleSensor /\ IdleCorrelation
    /\ IdleExtract

NotSerializer == <<description, metadata, band_index, detected, found_wavelength, band1, band2,
                   formula, calc_result, dataset, band_info, all_bands, indices, rgb_bands,
                   custom_pairs, SensorVars, CorrelationVars, ExtractVars>>

\* safe_json_serialize(obj)
Serialize ==
    /\ pc = "value"
    /\ sanitized' = SafeJsonSerialize(obj)
    /\ pc' = "sanitized"
    /\ UNCHANGED <<obj, resanitized, NotSerializer>>

\* safe_json_serialize applied to its own result
SerializeAgain ==
    /\ pc = "sanitized"
    /\ resanitized' = SafeJsonSerialize(sanitized)
    /\ pc' = "resanitized"
    /\ UNCHANGED <<obj, sanitized, NotSerializer>>

NextSerialize == Serialize \/ SerializeAgain

SpecSerialize == InitSerialize /\ [][NextSerialize]_vars

(***************************************************************************)
(* Properties of the sanitizer (checked under SpecSerialize).              *)
(***************************************************************************)
IsContainer(o) == o.k \in {"dict", "list", "tuple"}
ItemOf(o, i) == IF o.k = "dict" THEN o.items[i].value ELSE o.items[i]

\* b has the shape of a, null where a has a NaN or an infinity, and the value
\* of a everywhere else (for a numpy scalar, the value it wraps).
RECURSIVE SanitizedFrom(_, _)
SanitizedFrom(a, b) ==
    IF IsContainer(a)
    THEN /\ b.k = a.k
         /\ Len(b.items) = Len(a.items)
         /\ \A i \in DOMAIN a.items :
                /\ (a.k = "dict") => (b.items[i].key = a.items[i].key)
                /\ SanitizedFrom(ItemOf(a, i), ItemOf(b, i))
    ELSE IF a.k = "numpy" THEN SanitizedFrom(a.v, b)
    ELSE IF a \in {NaN, PInf, NInf} THEN b = None
    ELSE b = a

RECURSIVE HasNonFinite(_)
HasNonFinite(o) ==
    IF IsContainer(o) THEN \E i \in DOMAIN o.items : HasNonFinite(ItemOf(o, i))
    ELSE IF o.k = "numpy" THEN HasNonFinite(o.v)
    ELSE o \in {NaN, PInf, NInf}

\* C12: the sanitizer returns a structure of the same shape in which every
\* NaN or infinity is null and every other value is unchanged, and applying
\* it to its own result changes nothing.
ClaimC12_SanitizeKeepsShape ==
    /\ (pc \in {"sanitized", "resanitized"}) =>
           (SanitizedFrom(obj, sanitized) /\ ~HasNonFinite(sanitized))
    /\ (pc = "resanitized") => (resanitized = sanitized)
WitnessC12_NestedNonFinite ==
    /\ pc = "resanitized"
    /\ obj = Keyed(<<Tuple(<<List(<<NInf, Num(1)>>)>>)>>)
    /\ sanitized = Keyed(<<Tuple(<<List(<<None, Num(1)>>)>>)>>)

(***************************************************************************)
(* Rasters with shortwave-infrared bands: a red and a near-infrared band   *)
(* and bands whose wavelength puts them in the swir1 or the swir2 range,   *)
(* each with its own pixels.                                               *)
(***************************************************************************)
ShortwaveBands ==
    {Band("Red", <<>>, Array(<<Num(1), Num(2)>>)),
     Band("NIR", <<>>, Array(<<Num(3), Num(4)>>)),
     Band("", <<<<"wavelength", "1610">>>>, Array(<<Num(1), Num(1)>>)),
     Band("", <<<<"wavelength", "2200">>>>, Array(<<Num(2), Num(3)>>))}
InitShortwave == InitPipeline(ShortwaveBands)
SpecShortwave == InitShortwave /\ [][Next]_vars

(***************************************************************************)
(* Properties of band detection and of the vegetation and thermal          *)
(* families.                                                               *)
(***************************************************************************)
\* C13: every band of the file receives exactly one role, the one the
\* classifier gives for the band's description, metadata and position.
ClaimC13_EveryBandOneRole ==
    (pc # "start") =>
        /\ band_info # None
        /\ \A i \in 1..Len(dataset) :
               /\ Cardinality({k \in 1..Size(band_info) :
                                  band_info.items[k].value.band_number = i}) = 1
               /\ RoleOf(i) = IdentifyBandType(Lower(dataset[i].description),
                                               dataset[i].metadata, i - 1).value

VegetationDone == pc \notin {"start", "role_map", "rgb", "vegetation"}
HasEvi == indices.vegetation # None /\ Has(indices.vegetation, "evi")

\* C19: the vegetation family has an evi entry exactly when the role map has
\* red, nir and swir1, and the entry is computed with the swir1 array as the
\* shortwave term.
ClaimC19_EviIffSwir1 ==
    VegetationDone =>
        /\ HasEvi <=> (Has(all_bands, "red") /\ Has(all_bands, "nir") /\ Has(all_bands, "swir1"))
        /\ HasEvi => Get(indices.vegetation, "evi") =
                         SafeIndexCalc(Get(all_bands, "nir").data, Get(all_bands, "red").data,
                                       Evi(Get(all_bands, "swir1").data))

ThermalBandNumbers ==
    {i \in 1..Len(dataset) :
        Contains(Lower(RoleOf(i)), "thermal") \/ Contains(Lower(RoleOf(i)), "tir")}
ThermalEntries == IF indices.thermal = None THEN 0 ELSE Size(indices.thermal)

\* C20: when the thermal step has run, the thermal family has one entry per
\* band whose role name contains thermal or tir.
ClaimC20_OneEntryPerThermalBand ==
    (band_info # None /\ indices.error = None /\ pc \in {"custom", "spectral", "done"}) =>
        ThermalEntries = Cardinality(ThermalBandNumbers)

(***************************************************************************)
(* Sensor detection and metadata buckets (_parse_sensor_metadata).         *)
(*                                                                         *)
(* The argument maps each metadata domain to a metadata map (string keys   *)
(* and string values) and "bands" to a map from band_<i> to the band's     *)
(* metadata map.                                                           *)
(***************************************************************************)
MaxDomainEntries == 2

\* repr of the items of a dict of strings, from item i on
RECURSIVE ReprItems(_, _)
ReprItems(items, i) ==
    IF i > Len(items) THEN ""
    ELSE (IF i > 1 THEN ", " ELSE "")
         \o "'" \o items[i].key \o "': '" \o items[i].value.v \o "'"
         \o ReprItems(items, i + 1)
\* str(value) of a metadata value: a string, or a dict of strings
StrOf(value) ==
    IF value.k = "str" THEN value.v ELSE "{" \o ReprItems(value.items, 1) \o "}"

\* dict.update(data), from item i of data on
RECURSIVE Update(_, _, _)
Update(dict, data, i) ==
    IF i > Size(data) THEN dict
    ELSE Update(Put(dict, data.items[i].key, data.items[i].value), data, i + 1)
\* the loop that merges every domain into all_metadata, from domain i on
RECURSIVE FlattenFrom(_, _, _)
FlattenFrom(md, i, merged) ==
    IF i > Size(md) THEN merged
    ELSE FlattenFrom(md, i + 1,
             IF md.items[i].value.k = "dict" THEN Update(merged, md.items[i].value, 1)
             ELSE merged)

sensor_patterns == <<
    [sensor |-> "landsat", keywords |-> <<"landsat", "oli", "tirs", "etm", "tm">>],
    [sensor |-> "sentinel", keywords |-> <<"sentinel", "msi", "s2a", "s2b">>],
    [sensor |-> "modis", keywords |-> <<"modis", "terra", "aqua">>],
    [sensor |-> "spot", keywords |-> <<"spot", "hrvir">>],
    [sensor |-> "aster", keywords |-> <<"aster">>],
    [sensor |-> "worldview", keywords |-> <<"worldview", "quickbird", "geoeye">>],
    [sensor |-> "rapideye", keywords |-> <<"rapideye">>],
    [sensor |-> "planetscope", keywords |-> <<"planetscope">>],
    [sensor |-> "custom", keywords |-> <<"solar", "radiation", "dsr", "direct", "diffuse">>] >>

\* str(key).lower() and str(value).lower() of every entry
LoweredEntries(all_md) ==
    [i \in 1..Size(all_md) |->
        [key |-> Lower(all_md.items[i].key), value |-> Lower(StrOf(all_md.items[i].value))]]
\* any(keyword in str(key).lower() or keyword in str(value).lower() ...)
EntryMatches(keywords, lowered) ==
    \E j \in 1..Len(keywords) :
        Contains(lowered.key, keywords[j]) \/ Contains(lowered.value, keywords[j])

\* A variant of the detection loops with the entries in the outer loop.
RECURSIVE DetectSensorEntryMajor(_, _, _)
DetectSensorEntryMajor(lowered, f, e) ==
    IF e > Len(lowered) THEN None
    ELSE IF f > Len(sensor_patterns) THEN DetectSensorEntryMajor(lowered, 1, e + 1)
    ELSE IF EntryMatches(sensor_patterns[f].keywords, lowered[e])
         THEN Str(sensor_patterns[f].sensor)
    ELSE DetectSensorEntryMajor(lowered, f + 1, e)

\* The detection loops over the entries (lower-cased), from family f and
\* entry e on: families in the outer loop, entries in the inner one, both left
\* at the first match.
RECURSIVE DetectSensor(_, _, _)
DetectSensor(lowered, f, e) ==
    IF f > Len(sensor_patterns) THEN None
    ELSE IF e > Len(lowered) THEN DetectSensor(lowered, f + 1, 1)
    ELSE IF EntryMatches(sensor_patterns[f].keywords, lowered[e])
         THEN Str(sensor_patterns[f].sensor)
    ELSE DetectSensor(lowered, f, e + 1)

\* The if/elif chain of the bucket loop: each branch's keywords and the
\* bucket it writes to.
bucket_groups == <<
    [bucket |-> "acquisition_info", keywords |-> <<"date", "time", "acquisition">>],
    [bucket |-> "acquisition_info",
     keywords |-> <<"sun", "solar", "azimuth", "elevation", "zenith">>],
    [bucket |-> "quality_info", keywords |-> <<"cloud", "quality", "qa">>],
    [bucket |-> "sensor_info", keywords |-> <<"sensor", "platform", "satellite", "instrument">>],
    [bucket |-> "sensor_info", keywords |-> <<"band", "wavelength", "spectral">>],
    [bucket |-> "processing_info",
     keywords |-> <<"processing", "level", "correction", "calibration">>],
    [bucket |-> "coordinate_info",
     keywords |-> <<"projection", "datum", "ellipsoid", "zone", "coordinate">>] >>

\* any(keyword in key_lower for keyword in [...])
GroupMatches(g, key_lower) ==
    \E j \in 1..Len(bucket_groups[g].keywords) : Contains(key_lower, bucket_groups[g].keywords[j])

LaterOr(later, own) == IF later # 0 THEN later ELSE own
\* A variant of the chain in which the last matching branch is taken.
RECURSIVE BranchTakenLast(_, _)
BranchTakenLast(key_lower, g) ==
    IF g > Len(bucket_groups) THEN 0
    ELSE LaterOr(BranchTakenLast(key_lower, g + 1), IF GroupMatches(g, key_lower) THEN g ELSE 0)

\* The branch of the chain taken for a key, from branch g on (0: none).
RECURSIVE BranchTaken(_, _)
BranchTaken(key_lower, g) ==
    IF g > Len(bucket_groups) THEN 0
    ELSE IF GroupMatches(g, key_lower) THEN g
    ELSE BranchTaken(key_lower, g + 1)

NoBuckets ==
    [sensor_info |-> EmptyDict, acquisition_info |-> EmptyDict, processing_info |-> EmptyDict,
     coordinate_info |-> EmptyDict, quality_info |-> EmptyDict]

\* parsed[bucket][key] = value in the branch taken, nothing when none is
PlaceEntry(buckets, entry, g) ==
    IF g = 0 THEN buckets
    ELSE [buckets EXCEPT ![bucket_groups[g].bucket] = Put(@, entry.key, entry.value)]
\* the bucket loop, from entry i on
RECURSIVE BucketsFrom(_, _, _)
BucketsFrom(all_md, i, buckets) ==
    IF i > Size(all_md) THEN buckets
    ELSE BucketsFrom(all_md, i + 1,
             PlaceEntry(buckets, all_md.items[i], BranchTaken(Lower(all_md.items[i].key), 1)))

\* _get_sensor_capabilities and _get_typical_bands: the entry of a fixed table
\* for the families the table has, an empty dict or list for the others.
DescribedSensors == {"landsat", "sentinel", "modis", "custom"}
GetSensorCapabilities(sensor) ==
    IF sensor \in DescribedSensors THEN [k |-> "capabilities", of |-> sensor] ELSE EmptyDict
GetTypicalBands(sensor) ==
    IF sensor \in DescribedSensors THEN [k |-> "typical_bands", of |-> sensor] ELSE List(<<>>)

\* if detected_sensor: the two descriptors are added to sensor_info
WithDescriptors(buckets, sensor) ==
    IF sensor = None THEN buckets
    ELSE [buckets EXCEPT !.sensor_info =
              Put(Put(@, "capabilities", GetSensorCapabilities(sensor.v)),
                  "typical_bands", GetTypicalBands(sensor.v))]

\* The metadata of a raster: a default domain of up to MaxDomainEntries
\* entries with distinct keys, possibly a second domain that repeats a key,
\* and the metadata of its band.
DomainEntries ==
    {Entry("ACQUISITION_DATE", Str("1")), Entry("ACQUISITION_DATE", Str("LANDSAT_8")),
     Entry("SOLAR_ZENITH", Str("1")), Entry("QUALITY_BAND", Str("1")),
     Entry("PROCESSING_LEVEL", Str("1")), Entry("UTM_ZONE", Str("1")),
     Entry("SPACECRAFT", Str("1")), Entry("SPACECRAFT", Str("Sentinel-2A")),
     Entry("SPACECRAFT", Str("LANDSAT_8")), Entry("detected_sensor", Str("1"))}
DefaultDomains ==
    UNION {{Dict(q) : q \in {m \in [1..n -> DomainEntries] :
                                \A i, j \in 1..n : i # j => m[i].key # m[j].key}} :
           n \in 0..MaxDomainEntries}
BandsDomain(band_md) == <<Entry("bands", Dict(<<Entry("band_1", band_md)>>))>>
OtherDomains ==
    {BandsDomain(EmptyDict),
     BandsDomain(Dict(<<Entry("wavelength", Str("842"))>>)),
     BandsDomain(Dict(<<Entry("sensor", Str("MODIS"))>>)),
     <<Entry("IMAGE_STRUCTURE", Dict(<<Entry("SOLAR_ZENITH", Str("aqua"))>>))>>
         \o BandsDomain(EmptyDict)}
RawMetadatas ==
    {Dict(<<Entry("default", dflt)>> \o others) :
        dflt \in DefaultDomains, others \in OtherDomains}

InitSensor ==
    /\ pc = "metadata"
    /\ raw_metadata \in RawMetadatas
    /\ all_metadata = None /\ detected_sensor = None /\ parsed_info = None
    /\ IdleClassifier /\ IdleCalc /\ IdlePipeline /\ IdleSerializer /\ IdleCorrelation
    /\ IdleExtract

NotSensor == <<description, metadata, band_index, detected, found_wavelength, band1, band2,
               formula, calc_result, dataset, band_info, all_bands, indices, rgb_bands,
               custom_pairs, SerializerVars, CorrelationVars, ExtractVars>>

\* _parse_sensor_metadata up to parsed["sensor_info"]["detected_sensor"] = ...
DetectSensorStep ==
    /\ pc = "metadata"
    /\ all_metadata' = FlattenFrom(raw_metadata, 1, EmptyDict)
    /\ detected_sensor' = DetectSensor(LoweredEntries(all_metadata'), 1, 1)
    /\ parsed_info' = [NoBuckets EXCEPT !.sensor_info = Put(@, "detected_sensor", detected_sensor')]
    /\ pc' = "sensor_detected"
    /\ UNCHANGED <<raw_metadata, NotSensor>>

\* the bucket loop and the descriptors, then return parsed
BucketStep ==
    /\ pc = "sensor_detected"
    /\ parsed_info' = WithDescriptors(BucketsFrom(all_metadata, 1, parsed_info), detected_sensor)
    /\ pc' = "parsed"
    /\ UNCHANGED <<raw_metadata, all_metadata, detected_sensor, NotSensor>>

NextSensor == DetectSensorStep \/ BucketStep

SpecSensor == InitSensor /\ [][NextSensor]_vars

(***************************************************************************)
(* Properties of sensor detection and of the buckets (checked under        *)
(* SpecSensor).                                                            *)
(***************************************************************************)
SensorDetected == pc \in {"sensor_detected", "parsed"}
\* the keyword is a case-insensitive substring of the entry's key or value
KeywordIn(keyword, key_text, value_text) ==
    Contains(key_text, keyword) \/ Contains(value_text, keyword)
FamilyMatchesTexts(f, key_text, value_text) ==
    \E j \in 1..Len(sensor_patterns[f].keywords) :
        KeywordIn(sensor_patterns[f].keywords[j], key_text, value_text)
FamilyMatches(f, entry) ==
    FamilyMatchesTexts(f, Lower(entry.key), Lower(StrOf(entry.value)))
FamiliesOf(entry) == {f \in 1..Len(sensor_patterns) : FamilyMatches(f, entry)}
MatchingFamilies == UNION {FamiliesOf(all_metadata.items[e]) : e \in 1..Size(all_metadata)}
Lowest(numbers) == CHOOSE i \in numbers : \A j \in numbers : i <= j

BucketNames ==
    {"sensor_info", "acquisition_info", "processing_info", "coordinate_info", "quality_info"}
\* the buckets holding the entry (its key with its metadata value)
BucketsHolding(entry) ==
    {b \in BucketNames : Has(parsed_info[b], entry.key)
                          /\ Get(parsed_info[b], entry.key) = entry.value}
GroupsMatching(key) == {g \in 1..Len(bucket_groups) : GroupMatches(g, Lower(key))}
InRawMetadata(key) ==
    \E d \in 1..Size(raw_metadata) : Has(raw_metadata.items[d].value, key)

\* C15: every key of the flattened metadata is in exactly the bucket of the
\* first keyword group it matches and in no other, so no key is in two
\* buckets; a key matching no group is in no bucket and still in the raw
\* metadata.
ClaimC15_KeyInFirstMatchingBucket ==
    (pc = "parsed") =>
        \A e \in 1..Size(all_metadata) :
            /\ BucketsHolding(all_metadata.items[e]) =
                   IF GroupsMatching(all_metadata.items[e].key) = {} THEN {}
                   ELSE {bucket_groups[Lowest(GroupsMatching(all_metadata.items[e].key))].bucket}
            /\ InRawMetadata(all_metadata.items[e].key)
WitnessC15_TwoGroupsOneBucket ==
    /\ pc = "parsed"
    /\ Has(all_metadata, "QUALITY_BAND") /\ Has(all_metadata, "SPACECRAFT")
    /\ Has(parsed_info.quality_info, "QUALITY_BAND")
    /\ ~Has(parsed_info.sensor_info, "QUALITY_BAND")
    /\ \A b \in BucketNames : ~Has(parsed_info[b], "SPACECRAFT")

(***************************************************************************)
(* Band correlations (_calculate_band_correlations).                       *)
(***************************************************************************)
MaxSamples == 102
MinimumSamples == 100

\* mask = np.isfinite(data1) & np.isfinite(data2)
JointlyFinite(data1, data2) ==
    {c \in DOMAIN data1.cells : IsFinite(data1.cells[c]) /\ IsFinite(data2.cells[c])}
\* float(np.corrcoef(x, y)[0, 1]): NaN when one of the samples is constant,
\* the coefficient of the two samples otherwise.
IsConstant(cells, mask) == \A a, b \in mask : cells[a] = cells[b]
Select(cells, mask) == SelectSeq([c \in DOMAIN cells |-> IF c \in mask THEN cells[c] ELSE None],
                                 LAMBDA x : x # None)
Corrcoef(data1, data2, mask) ==
    IF IsConstant(data1.cells, mask) \/ IsConstant(data2.cells, mask) THEN NaN
    ELSE [k |-> "corrcoef", x |-> Select(data1.cells, mask), y |-> Select(data2.cells, mask)]

\* The body of the nested loops for one pair of role-map entries: flatten()
\* of an unreadable band raises and the pair is skipped.
CorrelationOfPair(correlations_so_far, band1_entry, band2_entry) ==
    IF band1_entry.value.data = Unusable \/ band2_entry.value.data = Unusable
    THEN correlations_so_far
    ELSE IF Cardinality(JointlyFinite(band1_entry.value.data, band2_entry.value.data))
                > MinimumSamples
    THEN Put(correlations_so_far, band1_entry.key \o "_vs_" \o band2_entry.key,
             Corrcoef(band1_entry.value.data, band2_entry.value.data,
                      JointlyFinite(band1_entry.value.data, band2_entry.value.data)))
    ELSE correlations_so_far

\* The nested loops, from the k-th pair on.
RECURSIVE CorrelationsFrom(_, _, _, _)
CorrelationsFrom(role_map, pairs, k, correlations_so_far) ==
    IF k > Len(pairs) THEN correlations_so_far
    ELSE CorrelationsFrom(role_map, pairs, k + 1,
             CorrelationOfPair(correlations_so_far, role_map.items[pairs[k][1]],
                               role_map.items[pairs[k][2]]))

\* _calculate_band_correlations
CalculateBandCorrelations(role_map) ==
    CorrelationsFrom(role_map, CustomPairs(role_map), 1, EmptyDict)

\* Arrays of MaxSamples pixels that are finite from pixel lo to pixel hi, NaN
\* before and infinite after, and role maps of two or three of them.
SampledArray(lo, hi) ==
    Array([c \in 1..MaxSamples |->
              IF c < lo THEN NaN ELSE IF c > hi THEN PInf ELSE Num((c + lo) % 3)])
SampledArrays ==
    {SampledArray(lo, hi) : lo \in 1..3, hi \in (MaxSamples - 3)..MaxSamples} \cup {Unusable}
SampledRoleMaps ==
    {Dict(<<Entry("red", [band |-> 1, data |-> a]), Entry("nir", [band |-> 2, data |-> b])>>) :
        a \in SampledArrays, b \in SampledArrays}
    \cup {Dict(<<Entry("red", [band |-> 1, data |-> a]), Entry("nir", [band |-> 2, data |-> b]),
                 Entry("swir1", [band |-> 3, data |-> c])>>) :
        a \in SampledArrays, b \in SampledArrays,
        c \in {SampledArray(2, MaxSamples), SampledArray(1, MaxSamples - 1)}}

InitCorrelate ==
    /\ pc = "correlate"
    /\ all_bands \in SampledRoleMaps
    /\ correlations = None
    /\ dataset = <<>> /\ band_info = None /\ indices = None /\ rgb_bands = None
    /\ custom_pairs = <<>>
    /\ IdleClassifier /\ IdleCalc /\ IdleSerializer /\ IdleSensor /\ IdleExtract

\* correlations = self._calculate_band_correlations(all_bands)
Correlate ==
    /\ pc = "correlate"
    /\ correlations' = CalculateBandCorrelations(all_bands)
    /\ pc' = "correlated"
    /\ UNCHANGED <<description, metadata, band_index, detected, found_wavelength, band1, band2,
                   formula, calc_result, dataset, band_info, all_bands, indices, rgb_bands,
                   custom_pairs, SerializerVars, SensorVars, ExtractVars>>

NextCorrelate == Correlate

SpecCorrelate == InitCorrelate /\ [][NextCorrelate]_vars

(***************************************************************************)
(* Properties of the band correlations (checked under SpecCorrelate).      *)
(***************************************************************************)
\* the number of pixels at which entries i and j of the role map are both finite
JointCount(i, j) ==
    IF all_bands.items[i].value.data = Unusable \/ all_bands.items[j].value.data = Unusable
    THEN 0
    ELSE Cardinality(JointlyFinite(all_bands.items[i].value.data,
                                   all_bands.items[j].value.data))

\* C16: band_correlations has an entry for a pair of roles exactly when the
\* pair has at least 100 jointly finite pixels.
ClaimC16_EntryIffHundredSamples ==
    (pc = "correlated") =>
        \A i, j \in 1..Size(all_bands) :
            i < j => (Has(correlations, all_bands.items[i].key \o "_vs_" \o all_bands.items[j].key)
                      <=> JointCount(i, j) >= 100)

(***************************************************************************)
(* The result document (extract_everything) and the command (main).        *)
(*                                                                         *)
(* The families of the index engine are kept above as records; the         *)
(* operators below give the Python dicts they stand for.  np.std is kept   *)
(* above as its square: its value is NaN or infinite exactly when the      *)
(* square is, and the root of the square otherwise.                        *)
(***************************************************************************)
Sqrt(x) == IF x.k = "fin" THEN [k |-> "sqrt", of |-> x] ELSE x

\* the dict _safe_index_calc returns
StatisticsDict(stats) ==
    IF stats = None THEN None
    ELSE Dict(<<Entry("mean", stats.mean), Entry("std", Sqrt(stats.std_squared)),
                Entry("min", stats.min), Entry("max", stats.max),
                Entry("valid_pixels", PyInt(stats.valid_pixels))>>)
\* a family of results of _safe_index_calc
FamilyDict(family) ==
    Dict([i \in 1..Size(family) |->
             Entry(family.items[i].key, StatisticsDict(family.items[i].value))])
\* one channel of the dict _calculate_rgb_indices returns
ChannelDict(channel) ==
    Dict(<<Entry("mean", channel.mean), Entry("std", Sqrt(channel.std_squared)),
           Entry("min", channel.min), Entry("max", channel.max)>>)
RgbDict(rgb) ==
    IF "error" \in DOMAIN rgb THEN Dict(<<Entry("error", Str(rgb.error))>>)
    ELSE Dict(<<Entry("brightness", ChannelDict(rgb.brightness)),
                Entry("saturation", ChannelDict(rgb.saturation)),
                Entry("hue", ChannelDict(rgb.hue))>>)
\* the dict _calculate_thermal_indices returns
ThermalBandDict(stats) ==
    Dict(<<Entry("mean_temperature", stats.mean_temperature),
           Entry("min_temperature", stats.min_temperature),
           Entry("max_temperature", stats.max_temperature),
           Entry("temp_std", Sqrt(stats.temp_std_squared))>>)
ThermalDict(family) ==
    Dict([i \in 1..Size(family) |->
             Entry(family.items[i].key, ThermalBandDict(family.items[i].value))])
\* the dict _detect_band_types returns
BandTypesDict(ds, info) ==
    Dict([i \in 1..Size(info) |->
             Entry(info.items[i].key,
                   Dict(<<Entry("band_number", PyInt(info.items[i].value.band_number)),
                          Entry("description", Str(ds[info.items[i].value.band_number].description)),
                          Entry("detected_type", Str(info.items[i].value.detected_type)),
                          Entry("wavelength", info.items[i].value.wavelength)>>))])
\* the dicts _analyze_spectral_curve and _classify_surface_materials return
CurveDict(curve) ==
    IF "error" \in DOMAIN curve THEN Dict(<<Entry("error", Str(curve.error))>>)
    ELSE Dict(<<Entry("wavelengths", List(curve.wavelengths)),
                Entry("reflectances", List(curve.reflectances)),
                Entry("slopes", List(curve.slopes)),
                Entry("overall_trend", Str(curve.overall_trend)),
                Entry("steepest_change",
                      Dict(<<Entry("slope", curve.steepest_change.slope),
                             Entry("position", PyInt(curve.steepest_change.position))>>))>>)
HintsList(hints) ==
    List([i \in 1..Len(hints) |->
             Dict(<<Entry("material", Str(hints[i].material)),
                    Entry("confidence", Str(hints[i].confidence))>>)])
\* the dict _analyze_spectral_signatures returns
SpectralDict(analysis) ==
    Dict(<<Entry("spectral_profile",
                 Dict(<<Entry("band_means", analysis.spectral_profile.band_means)>>)),
           Entry("wavelength_info",
                 Dict(<<Entry("detected_wavelengths",
                              analysis.wavelength_info.detected_wavelengths)>>))>>
         \o When(analysis.spectral_curve # None,
                 <<Entry("spectral_curve", CurveDict(analysis.spectral_curve))>>)
         \o <<Entry("surface_material_hints", HintsList(analysis.surface_material_hints))>>)

\* the dict _compute_all_indices returns: a key for every family it stored
IndicesDict(ds, ind) ==
    Dict(When(ind.band_detection # None,
              <<Entry("band_detection", BandTypesDict(ds, ind.band_detection))>>)
         \o When(ind.rgb # None, <<Entry("rgb", RgbDict(ind.rgb))>>)
         \o When(ind.vegetation # None, <<Entry("vegetation", FamilyDict(ind.vegetation))>>)
         \o When(ind.water # None, <<Entry("water", FamilyDict(ind.water))>>)
         \o When(ind.soil # None, <<Entry("soil", FamilyDict(ind.soil))>>)
         \o When(ind.thermal # None, <<Entry("thermal", ThermalDict(ind.thermal))>>)
         \o When(ind.custom # None, <<Entry("custom", FamilyDict(ind.custom))>>)
         \o When(ind.spectral_analysis # None,
                 <<Entry("spectral_analysis", SpectralDict(ind.spectral_analysis))>>)
         \o When(ind.error # None, <<Entry("error", Str(ind.error.v))>>))

\* str(datetime.datetime.now())
Now == Str("2024-01-01 00:00:00.000000")

\* os.path.basename(path): the text after the last slash
RECURSIVE Basename(_)
Basename(path) ==
    IF ~Contains(path, "/") THEN path
    ELSE Basename(SubSeq(path, 2, Len(path)))

\* What the file system holds at a path: nothing (None), or a file that
\* gdal.Open can or cannot read, with its bands, the origin of its
\* geotransform, and whether GetMetadataDomainList() returns a list.
File(opens, raster, origin, domains_listed) ==
    [k |-> "file", opens |-> opens, raster |-> raster, origin |-> origin,
     domains_listed |-> domains_listed]

\* _extract_file_info
ExtractFileInfo(path) ==
    Dict(<<Entry("filename", Str(Basename(path))), Entry("file_path", Str(path)),
           Entry("file_size_bytes", PyInt(2048)), Entry("file_size_mb", Num(0))>>)
\* _extract_raster_info
ExtractRasterInfo(f) ==
    Dict(<<Entry("width", PyInt(MaxPixels)), Entry("height", PyInt(1)),
           Entry("bands_count", PyInt(Len(f.raster))), Entry("raster_type", Str("GeoTIFF"))>>)
\* _extract_spatial_info, for a geotransform (origin, 1, 0, 0, 0, -1)
ExtractSpatialInfo(f) ==
    Dict(<<Entry("geotransform",
                 Dict(<<Entry("x0", f.origin), Entry("y0", Num(0)),
                        Entry("pixel_width", Num(1)), Entry("pixel_height", Num(-1))>>)),
           Entry("bounding_box",
                 Dict(<<Entry("x_min", f.origin),
                        Entry("x_max", FAdd(f.origin, FMul(Num(MaxPixels), Num(1)))),
                        Entry("center_x",
                              FDiv(FAdd(f.origin, FAdd(f.origin, FMul(Num(MaxPixels), Num(1)))),
                                   Num(2)))>>)),
           Entry("area_sq_meters", FMul(FSub(FAdd(f.origin, Num(MaxPixels)), f.origin), Num(1)))>>)

\* The pixels _extract_all_bands keeps for the statistics of a band without
\* a declared nodata value: a guessed nodata value (0 when more than half of
\* the pixels are 0, else -9999 when present) is dropped, else the NaN
\* pixels are.
ValidData(cells) ==
    IF Cardinality({cells[c] : c \in DOMAIN cells}) > 1
    THEN IF 2 * Cardinality({c \in DOMAIN cells : FEq(cells[c], Num(0))}) > Len(cells)
         THEN {c \in DOMAIN cells : ~FEq(cells[c], Num(0))}
         ELSE IF \E c \in DOMAIN cells : FEq(cells[c], Num(-9999))
         THEN {c \in DOMAIN cells : ~FEq(cells[c], Num(-9999))}
         ELSE IF \E c \in DOMAIN cells : IsNaN(cells[c])
         THEN {c \in DOMAIN cells : ~IsNaN(cells[c])}
         ELSE DOMAIN cells
    ELSE DOMAIN cells
\* valid_data is data itself (no nodata value was declared or guessed)
\* rather than a selection of its pixels.
ValidDataIsData(cells) ==
    \/ Cardinality({cells[c] : c \in DOMAIN cells}) <= 1
    \/ /\ 2 * Cardinality({c \in DOMAIN cells : FEq(cells[c], Num(0))}) <= Len(cells)
       /\ ~\E c \in DOMAIN cells : FEq(cells[c], Num(-9999))
       /\ ~\E c \in DOMAIN cells : IsNaN(cells[c])
\* len(valid_data): the number of selected pixels of a selection, and the
\* number of rows of the two-dimensional array data (the rasters of the
\* model have one row).
LenOfValidData(cells) ==
    IF ValidDataIsData(cells) THEN 1 ELSE Cardinality(ValidData(cells))
\* band_info["statistics"]; the median, the quartiles and the histogram are
\* further floats and lists of floats of the same pixels.
BandStatistics(cells, valid) ==
    IF LenOfValidData(cells) > 0
    THEN Dict(<<Entry("min", MinOf(cells, valid)), Entry("max", MaxOf(cells, valid)),
                Entry("mean", MeanOf(cells, valid)), Entry("std", Sqrt(VarOf(cells, valid))),
                Entry("valid_pixels", PyInt(LenOfValidData(cells))),
                Entry("total_pixels", PyInt(Len(cells))),
                Entry("nodata_pixels", PyInt(Len(cells) - LenOfValidData(cells)))>>)
    ELSE Dict(<<Entry("min", None), Entry("max", None), Entry("mean", None),
                Entry("std", None), Entry("valid_pixels", PyInt(0)),
                Entry("total_pixels", PyInt(Len(cells))),
                Entry("nodata_pixels", PyInt(Len(cells)))>>)
MetadataDict(md) == Dict([i \in 1..Len(md) |-> Entry(md[i][1], Str(md[i][2]))])
BandDataOf(i, band) ==
    Dict(<<Entry("band_index", PyInt(i)), Entry("nodata_value", None),
           Entry("block_size", List(<<PyInt(MaxPixels), PyInt(1)>>)),
           Entry("description", Str(band.description)),
           Entry("metadata", MetadataDict(band.metadata)),
           Entry("statistics", BandStatistics(band.data.cells, ValidData(band.data.cells)))>>)
\* _extract_all_bands: for a band whose ReadAsArray() gave None, np.unique
\* finds one value and len(valid_data) raises.
ExtractAllBands(raster) ==
    IF \E i \in 1..Len(raster) : raster[i].data = Unusable
    THEN Raise("object of type 'NoneType' has no len()")
    ELSE Return(List([i \in 1..Len(raster) |-> BandDataOf(i, raster[i])]))

\* metadata["bands"]
BandMetadataDict(raster) ==
    Dict([i \in 1..Len(raster) |->
             Entry("band_" \o ToString(i), MetadataDict(raster[i].metadata))])
\* the dict _parse_sensor_metadata returns
ParsedDict(buckets) ==
    Dict(<<Entry("sensor_info", buckets.sensor_info),
           Entry("acquisition_info", buckets.acquisition_info),
           Entry("processing_info", buckets.processing_info),
           Entry("coordinate_info", buckets.coordinate_info),
           Entry("quality_info", buckets.quality_info)>>)
\* _parse_sensor_metadata as a whole
ParseSensorMetadata(all_md, sensor) ==
    ParsedDict(WithDescriptors(
        BucketsFrom(all_md, 1, [NoBuckets EXCEPT !.sensor_info = Put(@, "detected_sensor", sensor)]),
        sensor))
ParseFlattened(all_md) == ParseSensorMetadata(all_md, DetectSensor(LoweredEntries(all_md), 1, 1))
WithParsedInfo(md) == Put(md, "parsed_info", ParseFlattened(FlattenFrom(md, 1, EmptyDict)))
\* _extract_all_metadata, for a dataset without metadata of its own: the loop
\* over GetMetadataDomainList() raises when that is None.
ExtractAllMetadata(f) ==
    IF ~f.domains_listed THEN Raise("'NoneType' object is not iterable")
    ELSE Return(WithParsedInfo(Dict(<<Entry("bands", BandMetadataDict(f.raster))>>)))

\* _detect_spatial_features: the bounding box and the first shape of band 1,
\* a (geometry, value) tuple; the function never raises.
DetectSpatialFeatures(f) ==
    Dict(<<Entry("bounding_box_wgs84", Dict(<<Entry("west", f.origin), Entry("south", Num(-1))>>)),
           Entry("geometry_shapes",
                 Dict(<<Entry("count", PyInt(1)),
                        Entry("shapes",
                              List(<<Tuple(<<Dict(<<Entry("type", Str("Polygon"))>>),
                                             f.raster[1].data.cells[1]>>)>>))>>))>>)
\* _calculate_comprehensive_stats
CalculateComprehensiveStats(f) ==
    Dict(<<Entry("file_summary",
                 Dict(<<Entry("total_pixels", PyInt(MaxPixels * Len(f.raster))),
                        Entry("aspect_ratio", Num(MaxPixels))>>)),
           Entry("processing_info",
                 Dict(<<Entry("extraction_method", Str("dynamic_comprehensive"))>>))>>)
\* _extract_complete_metadata_for_storage
CompleteMetadata(f) ==
    Dict(<<Entry("gdal_metadata", EmptyDict),
           Entry("band_metadata", BandMetadataDict(f.raster)),
           Entry("geotransform",
                 List(<<f.origin, Num(1), Num(0), Num(0), Num(0), Num(-1)>>))>>)
\* _extract_pixel_samples: one pixel in a hundred is sampled, none of a
\* raster of fewer than a hundred pixels.
PixelSamples(f) ==
    Dict([i \in 1..Len(f.raster) |->
             Entry("band_" \o ToString(i),
                   Dict(<<Entry("samples", List(<<>>)), Entry("sample_count", PyInt(0)),
                          Entry("total_pixels", PyInt(MaxPixels))>>))])
\* _prepare_compressed_band_data
CompressedBands(f) ==
    Dict([i \in 1..Len(f.raster) |->
             Entry("band_" \o ToString(i),
                   Dict(<<Entry("compression_ready", [k |-> "bool", v |-> TRUE]),
                          Entry("estimated_size_bytes", PyInt(MaxPixels * 4))>>))])
\* _get_reconstruction_metadata
ReconstructionMetadata(f, path) ==
    Dict(<<Entry("original_filename", Str(Basename(path))),
           Entry("original_size_bytes", PyInt(2048)),
           Entry("geotransform",
                 List(<<f.origin, Num(1), Num(0), Num(0), Num(0), Num(-1)>>))>>)
RawStorage(f, path) ==
    Dict(<<Entry("complete_metadata", CompleteMetadata(f)),
           Entry("pixel_samples", PixelSamples(f)),
           Entry("compressed_bands", CompressedBands(f)),
           Entry("reconstruction_info", ReconstructionMetadata(f, path))>>)

\* The dict literal of extract_everything up to "metadata": the values are
\* evaluated in order, and the first exception leaves the literal.
SectionsFrom(f, path, band_data, md) ==
    IF band_data.kind = "raise" THEN band_data
    ELSE IF md.kind = "raise" THEN md
    ELSE Return(Dict(<<Entry("file_info", ExtractFileInfo(path)),
                       Entry("raster_info", ExtractRasterInfo(f)),
                       Entry("spatial_info", ExtractSpatialInfo(f)),
                       Entry("band_data", band_data.value),
                       Entry("metadata", md.value)>>))
FirstSections(f, path, stat_raises) ==
    IF ~f.opens THEN Raise("Cannot open file: " \o path)
    ELSE IF stat_raises THEN Raise("[Errno 2] No such file or directory: '" \o path \o "'")
    ELSE SectionsFrom(f, path, ExtractAllBands(f.raster), ExtractAllMetadata(f))

\* The rest of the dict literal, from "computed_indices" on.
LastSections(sections, ds, ind, f, path) ==
    Dict(sections.items
         \o <<Entry("computed_indices", IndicesDict(ds, ind)),
              Entry("spatial_features", DetectSpatialFeatures(f)),
              Entry("statistics", CalculateComprehensiveStats(f)),
              Entry("raw_storage", RawStorage(f, path)),
              Entry("extraction_timestamp", Now),
              Entry("extractor_version", Str("1.0.1-with-raw-storage"))>>)

\* A variant of error_data without the file path.
ErrorDataWithoutPath(e, path) ==
    Dict(<<Entry("error", Str(e)), Entry("extraction_timestamp", Now)>>)

\* error_data of the except clause of extract_everything
ErrorData(e, path) ==
    Dict(<<Entry("error", Str(e)), Entry("file_path", Str(path)),
           Entry("extraction_timestamp", Now)>>)

\* A variant of the cleaning that returns the data as they are.
KeptForJson(data) == data

\* self.extracted_data = safe_json_serialize(raw_data), and likewise for
\* error_data
CleanForJson(data) == SafeJsonSerialize(data)

\* json.dumps(result, indent=2, default=safe_json_serialize), as the JSON
\* value the text denotes: tuples are written as arrays.
RECURSIVE JsonDumps(_)
JsonDumps(o) ==
    IF o.k = "dict"
    THEN Dict([i \in DOMAIN o.items |->
                  [key |-> o.items[i].key, value |-> JsonDumps(o.items[i].value)]])
    ELSE IF o.k \in {"list", "tuple"} THEN List([i \in DOMAIN o.items |-> JsonDumps(o.items[i])])
    ELSE o

\* The rasters a file can hold: up to MaxBands bands, each a red band, a
\* thermal band with a NaN pixel, a near-infrared band with infinite pixels
\* and a NaN wavelength, a band whose wavelength text makes the classifier
\* raise, or a band whose pixels cannot be read.
ExtractBands ==
    {Band("Red", <<>>, Array(<<Num(1), Num(2)>>)),
     Band("Thermal", <<>>, Array(<<NaN, Num(1)>>)),
     Band("NIR", <<<<"wavelength", "nan">>>>, Array(<<PInf, NInf>>)),
     Band("", <<<<"wavelength", "nan">>>>, Array(<<Num(1), Num(2)>>)),
     Band("Red", <<>>, Unusable)}
ExtractRasters == UNION {[1..n -> ExtractBands] : n \in 1..MaxBands}
Files ==
    {None, File(FALSE, <<>>, Num(0), TRUE)}
    \cup {File(TRUE, r, Num(0), TRUE) : r \in ExtractRasters}
    \cup {File(TRUE, r, NaN, TRUE) : r \in ExtractRasters}
    \cup {File(TRUE, r, Num(0), FALSE) : r \in ExtractRasters}
Argvs ==
    {<<"geotiff_extractor.py">>, <<"geotiff_extractor.py", "/data/scene.tif">>,
     <<"geotiff_extractor.py", "/data/scene.tif", "extra">>}

InitExtract ==
    /\ pc = "main"
    /\ argv \in Argvs
    /\ file \in Files
    /\ raised = None /\ raw_data = None /\ extracted_data = None
    /\ stdout = <<>> /\ exit_code = None
    /\ dataset = <<>> /\ band_info = None /\ all_bands = EmptyDict /\ indices = NoIndices
    /\ rgb_bands = None /\ custom_pairs = <<>>
    /\ IdleClassifier /\ IdleCalc /\ IdleSerializer /\ IdleSensor /\ IdleCorrelation

NotExtract == <<description, metadata, band_index, detected, found_wavelength, band1, band2,
                formula, calc_result, SerializerVars, SensorVars, CorrelationVars>>
PipelineVars == <<dataset, band_info, all_bands, indices, rgb_bands, custom_pairs>>

\* print(json.dumps(...)); sys.exit(1)
ExitWith(document) ==
    /\ stdout' = Append(stdout, JsonDumps(document))
    /\ exit_code' = PyInt(1)
    /\ pc' = "exited"

\* main, up to the call of extract_everything
Main ==
    /\ pc = "main"
    /\ IF Len(argv) # 2
       THEN ExitWith(Dict(<<Entry("error", Str("Usage: python3 geotiff_extractor.py <file_path>")),
                            Entry("example", Str("python3 geotiff_extractor.py /path/to/file.tif")),
                            Entry("extraction_timestamp", Now)>>))
       ELSE IF file = None
       THEN ExitWith(Dict(<<Entry("error", Str("File not found: " \o argv[2])),
                            Entry("file_path", Str(argv[2])),
                            Entry("extraction_timestamp", Now)>>))
       ELSE pc' = "open" /\ UNCHANGED <<stdout, exit_code>>
    /\ UNCHANGED <<argv, file, raised, raw_data, extracted_data, PipelineVars, NotExtract>>

\* except Exception as e: ... return safe_json_serialize(error_data)
Except(e) ==
    /\ raised' = Str(e)
    /\ extracted_data' = CleanForJson(ErrorData(e, argv[2]))
    /\ pc' = "returned"

\* what follows the first sections of the dict literal
AfterFirstSections(outcome) ==
    IF outcome.kind = "raise"
    THEN Except(outcome.value) /\ UNCHANGED <<raw_data, dataset>>
    ELSE /\ raw_data' = outcome.value
         /\ dataset' = file.raster
         /\ pc' = "start"
         /\ UNCHANGED <<raised, extracted_data>>

\* extract_everything: gdal.Open and the dict literal up to "metadata".
\* os.stat raises when the file was removed after the path check.
OpenAndExtract ==
    /\ pc = "open"
    /\ \E stat_raises \in BOOLEAN : AfterFirstSections(FirstSections(file, argv[2], stat_raises))
    /\ UNCHANGED <<argv, file, stdout, exit_code, band_info, all_bands, indices, rgb_bands,
                   custom_pairs, NotExtract>>

\* extract_everything after _compute_all_indices has returned: the rest of
\* the dict literal and the cleaning.  os.path.getsize raises when the file
\* was removed in the meantime.
FinishExtract ==
    /\ pc = "done"
    /\ raw_data # None
    /\ \E getsize_raises \in BOOLEAN :
           IF getsize_raises
           THEN Except("[Errno 2] No such file or directory: '" \o argv[2] \o "'")
                /\ UNCHANGED raw_data
           ELSE /\ raw_data' = LastSections(raw_data, dataset, indices, file, argv[2])
                /\ extracted_data' = CleanForJson(raw_data')
                /\ pc' = "returned"
                /\ UNCHANGED raised
    /\ UNCHANGED <<argv, file, stdout, exit_code, PipelineVars, NotExtract>>

\* main: print(json.dumps(result, ...)), and the process ends with status 0
PrintResult ==
    /\ pc = "returned"
    /\ stdout' = Append(stdout, JsonDumps(extracted_data))
    /\ exit_code' = PyInt(0)
    /\ pc' = "exited"
    /\ UNCHANGED <<argv, file, raised, raw_data, extracted_data, PipelineVars, NotExtract>>

NextExtract == Main \/ OpenAndExtract \/ Next \/ FinishExtract \/ PrintResult

SpecExtract == InitExtract /\ [][NextExtract]_vars

(***************************************************************************)
(* Properties of the document and of the command (checked under            *)
(* SpecExtract).                                                           *)
(***************************************************************************)
Returned == pc \in {"returned", "exited"} /\ extracted_data # None

\* C11: no number of a document returned by extract_everything, at any
\* depth, is NaN or infinite, whether the document is a result or an error.
ClaimC11_ReturnedDocumentFinite == Returned => ~HasNonFinite(extracted_data)
WitnessC11_NonFiniteThermalCleaned ==
    /\ pc = "returned" /\ raised = None
    /\ Has(Get(raw_data, "computed_indices"), "rgb")
    /\ Has(Get(raw_data, "computed_indices"), "thermal")
    /\ HasNonFinite(Get(Get(raw_data, "computed_indices"), "thermal"))
    /\ Get(Get(Get(extracted_data, "computed_indices"), "thermal"), "thermal_band_1")
           = Dict(<<Entry("mean_temperature", None), Entry("min_temperature", None),
                    Entry("max_temperature", None), Entry("temp_std", None)>>)

\* the file was opened and a later step of extract_everything raised
SectionFailed ==
    Returned /\ raised # None /\ file # None /\ file.opens
SectionNames ==
    {"file_info", "raster_info", "spatial_info", "band_data", "metadata", "computed_indices",
     "spatial_features", "statistics", "raw_storage"}

\* C17: when a step other than opening the file fails, the returned document
\* has no error at its top level and still holds its sections.
ClaimC17_FailureStaysInSection ==
    SectionFailed =>
        /\ ~Has(extracted_data, "error")
        /\ \E name \in SectionNames : Has(extracted_data, name)

Exited == pc = "exited"
\* C18: a run prints exactly one document, which has an extraction_timestamp;
\* without exactly one argument, or with a path at which there is no file, the
\* document has an error and the exit status is not 0; when extract_everything
\* caught an exception the document has an error and the path argument.
ClaimC18_OneDocumentPerRun ==
    /\ Len(stdout) = IF Exited THEN 1 ELSE 0
    /\ Exited =>
           /\ Has(stdout[1], "extraction_timestamp")
           /\ (Len(argv) # 2 \/ file = None) =>
                  (Has(stdout[1], "error") /\ exit_code # PyInt(0))
           /\ (raised # None) =>
                  /\ Has(stdout[1], "error")
                  /\ Has(stdout[1], "file_path")
                  /\ Get(stdout[1], "file_path") = Str(argv[2])
WitnessC18_AnalysisFailurePrinted ==
    /\ Exited /\ raised # None /\ file.opens
    /\ Get(stdout[1], "file_path") = Str("/data/scene.tif")

(***************************************************************************)
(* Rasters for the named indices: red, near-infrared, green, swir1 and     *)
(* red-edge bands, and a red band whose pixels cannot be read.             *)
(***************************************************************************)
CatalogueBands ==
    {Band("Red", <<>>, Array(<<Num(1), Num(2)>>)),
     Band("NIR", <<>>, Array(<<Num(3), Num(4)>>)),
     Band("Green", <<>>, Array(<<Num(2), Num(2)>>)),
     Band("", <<<<"wavelength", "1610">>>>, Array(<<Num(1), Num(1)>>)),
     Band("B5", <<>>, Array(<<Num(2), Num(3)>>)),
     Band("Red", <<>>, Unusable)}
InitCatalogue == InitPipeline(CatalogueBands)
SpecCatalogue == InitCatalogue /\ [][Next]_vars

(***************************************************************************)
(* Properties of the named indices (checked under SpecCatalogue).          *)
(***************************************************************************)
SoilDone == band_info # None /\ pc \in {"thermal", "custom", "spectral", "done"}
\* the role map holds an array for the role
Holds(role) == Has(all_bands, role) /\ Get(all_bands, role).data # Unusable
KeyPresent(family, key) == indices[family] # None /\ Has(indices[family], key)

SyntheticRole(nm) == Return("spectral_" \o ToString(nm) \o "nm")
\* the two integers around a finite w
Neighbours(w) == {w.n \div w.d, (w.n \div w.d) + 1}
\* the integer nearest to a finite w (either neighbour at a half)
Nearest(w) == CHOOSE t \in Neighbours(w) : 2 * Abs(w.n - t * w.d) <= w.d
\* the integer part of a finite w: the neighbour toward zero
IntegerPart(w) ==
    CHOOSE t \in Neighbours(w) :
        /\ Abs(t) * w.d <= Abs(w.n) /\ Abs(w.n) < (Abs(t) + 1) * w.d
        /\ t * w.n >= 0
OutsideEveryRange ==
    /\ Classified /\ NoKeywordMatches
    /\ ExtractWavelength(metadata) # None
    /\ RangeRoles(ExtractWavelength(metadata)) = {}

\* C22 as stated: a parsed wavelength outside every listed range yields a
\* synthetic role whose name carries the wavelength rounded to the nearest
\* integer nanometer (950.7 gives 951).
ClaimC22_SyntheticRoleRoundsToNearest ==
    OutsideEveryRange =>
        /\ detected.kind = "return"
        /\ IsFinite(ExtractWavelength(metadata)) =>
               detected = SyntheticRole(Nearest(ExtractWavelength(metadata)))

\* C22 as amended: a parsed wavelength outside every listed range yields a
\* synthetic role whose name carries the integer part of the wavelength
\* (950.7 gives 950) when the wavelength is finite and not 0; a wavelength
\* of 0 is classified by position, and NaN or an infinity raises.
ClaimC22_SyntheticRoleTruncates ==
    OutsideEveryRange =>
        LET w == ExtractWavelength(metadata)
        IN  IF ~IsFinite(w) THEN detected.kind = "raise"
            ELSE IF w = Num(0) THEN detected = Return(PositionalRole(band_index))
            ELSE detected = SyntheticRole(IntegerPart(w))
WitnessC22_FractionDropped ==
    /\ OutsideEveryRange
    /\ ExtractWavelength(metadata) = Fin(9507, 10)
    /\ detected = Return("spectral_950nm")

\* the entries of the metadata map whose key names a wavelength and whose
\* value parses as a number
KeyNamesWavelength(key) ==
    Contains(Lower(key), "wavelength") \/ Contains(Lower(key), "lambda")
ParseableEntries ==
    {i \in 1..Len(metadata) : /\ KeyNamesWavelength(metadata[i][1])
                              /\ ParseFloat(metadata[i][2]).kind = "return"}

\* C23: _extract_wavelength returns the numeric value of the first metadata
\* entry, in iteration order, whose key contains wavelength or lambda in any
\* case and whose value parses as a number; a matching key with an
\* unparseable value is skipped, and nothing is returned when no matching
\* entry parses.
ClaimC23_FirstParseableEntryWins ==
    (Classified /\ NoKeywordMatches) =>
        found_wavelength =
            IF ParseableEntries = {} THEN None
            ELSE ParseFloat(metadata[Lowest(ParseableEntries)][2]).value
WitnessC23_MalformedEntrySkipped ==
    /\ Classified /\ NoKeywordMatches
    /\ metadata = <<<<"wavelength", "abc">>, <<"Center_Lambda", "650">>>>
    /\ found_wavelength = Num(650)
    /\ detected = Return("red")

(***************************************************************************)
(* Properties of the custom family (checked under SpecUnrecognized).       *)
(***************************************************************************)
CustomDone == band_info # None /\ indices.error = None /\ pc \in {"spectral", "done"}
CustomKey(i, j, suffix) ==
    all_bands.items[i].key \o "_" \o all_bands.items[j].key \o suffix
CustomHas(key) == indices.custom # None /\ Has(indices.custom, key)
Readable(i) == all_bands.items[i].value.data # Unusable
\* ki / kj and (ki - kj) / (ki + kj) have a finite cell
RatioFinite(i, j) ==
    /\ Readable(i) /\ Readable(j)
    /\ \E c \in DOMAIN EntryCells(i) : IsFinite(FDiv(EntryCells(i)[c], EntryCells(j)[c]))
NDiffFinite(i, j) ==
    /\ Readable(i) /\ Readable(j)
    /\ \E c \in DOMAIN EntryCells(i) :
           IsFinite(FDiv(FSub(EntryCells(i)[c], EntryCells(j)[c]),
                         FAdd(EntryCells(i)[c], EntryCells(j)[c])))
\* how often the pair of entries (i, j), in that order, was evaluated
Evaluations(i, j) ==
    Cardinality({k \in 1..Len(custom_pairs) :
                    custom_pairs[k] = <<all_bands.items[i].value.band,
                                        all_bands.items[j].value.band>>})

\* C24: for a role map with keys k1..km in insertion order the custom step
\* evaluates each pair (ki, kj) with i < j exactly once and never (kj, ki) or
\* (ki, ki); the key ki_kj_ratio is present exactly when ki / kj has a finite
\* cell and ki_kj_ndiff exactly when (ki - kj) / (ki + kj) has one, so the
\* family has at most m(m-1) entries.
ClaimC24_EachRolePairOnceInOrder ==
    CustomDone =>
        /\ \A i, j \in 1..Size(all_bands) :
               /\ Evaluations(i, j) = IF i < j THEN 1 ELSE 0
               /\ CustomHas(CustomKey(i, j, "_ratio")) <=> (i < j /\ RatioFinite(i, j))
               /\ CustomHas(CustomKey(i, j, "_ndiff")) <=> (i < j /\ NDiffFinite(i, j))
        /\ 2 * Len(custom_pairs) = Size(all_bands) * (Size(all_bands) - 1)
        /\ indices.custom # None =>
               /\ Size(indices.custom) >= 1
               /\ Size(indices.custom) <= Size(all_bands) * (Size(all_bands) - 1)
               /\ Size(indices.custom) =
                      Cardinality({p \in (1..Size(all_bands)) \X (1..Size(all_bands)) :
                                      p[1] < p[2] /\ RatioFinite(p[1], p[2])})
                      + Cardinality({p \in (1..Size(all_bands)) \X (1..Size(all_bands)) :
                                        p[1] < p[2] /\ NDiffFinite(p[1], p[2])})
WitnessC24_DifferenceWithoutRatio ==
    /\ CustomDone
    /\ Size(all_bands) = 3
    /\ CustomHas(CustomKey(1, 2, "_ndiff")) /\ ~CustomHas(CustomKey(1, 2, "_ratio"))
    /\ ~CustomHas(CustomKey(2, 3, "_ratio")) /\ ~CustomHas(CustomKey(2, 3, "_ndiff"))
    /\ Size(indices.custom) = 2

(***************************************************************************)
(* Rasters for the spectral analysis: red, green, near-infrared and        *)
(* shortwave bands with and without a wavelength in their metadata, two    *)
(* of them with the same wavelength, and a red band of zero pixels.        *)
(***************************************************************************)
SpectralBands ==
    {Band("Red", <<<<"wavelength", "650">>>>, Array(<<Num(1), Num(2)>>)),
     Band("NIR", <<<<"wavelength", "800">>>>, Array(<<Num(3), Num(4)>>)),
     Band("NIR", <<<<"wavelength", "800">>>>, Array(<<Num(1), Num(1)>>)),
     Band("", <<<<"wavelength", "1610">>>>, Array(<<Num(2), Num(3)>>)),
     Band("Green", <<<<"wavelength", "650">>>>, Array(<<Num(2), Num(2)>>)),
     Band("Red", <<>>, Array(<<Num(1), Num(1)>>)),
     Band("NIR", <<>>, Array(<<Num(3), Num(4)>>)),
     Band("Red", <<<<"wavelength", "650">>>>, Array(<<Num(0), Num(0)>>))}
InitSpectral == InitPipeline(SpectralBands)
SpecSpectral == InitSpectral /\ [][Next]_vars

(***************************************************************************)
(* Properties of the spectral analysis (checked under SpecSpectral).       *)
(***************************************************************************)
Analyzed == pc = "done" /\ band_info # None /\ indices.spectral_analysis # None
Curve == indices.spectral_analysis.spectral_curve
\* the roles some band of which has a wavelength in its metadata
RolesWithWavelength ==
    {RoleOf(i) : i \in {j \in 1..Len(dataset) : ExtractWavelength(dataset[j].metadata) # None}}
\* the slope between points i and i+1 of the curve
SlopeAt(curve, i) ==
    FDiv(FSub(curve.reflectances[i + 1], curve.reflectances[i]),
         FSub(curve.wavelengths[i + 1], curve.wavelengths[i]))

\* C25: no spectral_curve is produced when fewer than 3 roles have known
\* wavelengths; with n >= 3 such roles the curve lists them in ascending
\* wavelength order and reports exactly n-1 slopes, one per consecutive
\* pair, overall_trend increasing iff the slope sum is positive, else
\* decreasing, and steepest_change as the slope of largest absolute value
\* with its index in the slope list.
ClaimC25_CurveOfSortedWavelengths ==
    Analyzed =>
        IF Cardinality(RolesWithWavelength) < 3 THEN Curve = None
        ELSE /\ Curve # None
             /\ "slopes" \in DOMAIN Curve
             /\ Len(Curve.wavelengths) = Cardinality(RolesWithWavelength)
             /\ \A i \in 1..(Len(Curve.wavelengths) - 1) :
                    FLe(Curve.wavelengths[i], Curve.wavelengths[i + 1])
             /\ Len(Curve.slopes) = Cardinality(RolesWithWavelength) - 1
             /\ \A i \in 1..Len(Curve.slopes) : Curve.slopes[i] = SlopeAt(Curve, i)
             /\ Curve.overall_trend =
                    IF FGt(SumOf(Curve.slopes, DOMAIN Curve.slopes), Num(0))
                    THEN "increasing" ELSE "decreasing"
             /\ Curve.slopes[Curve.steepest_change.position + 1] = Curve.steepest_change.slope
             /\ \A i \in 1..Len(Curve.slopes) :
                    FLe(FAbs(Curve.slopes[i]), FAbs(Curve.steepest_change.slope))

Hints == indices.spectral_analysis.surface_material_hints
HealthyVegetation ==
    \E i \in 1..Len(Hints) : Hints[i] = Hint("healthy_vegetation", "high")
\* the mean over the finite pixels of the array the role map holds for a role
FiniteMean(role) ==
    LET cells == Get(all_bands, role).data.cells
    IN  MeanOf(cells, {c \in DOMAIN cells : IsFinite(cells[c])})

\* C26 as stated: whenever the role map holds a red band and a nir band
\* whose means over finite pixels satisfy nir_mean > 1.5 x red_mean, the
\* material hints contain a healthy_vegetation hint with confidence high.
ClaimC26_HealthyVegetationFromRoles ==
    (Analyzed /\ Has(all_bands, "red") /\ Has(all_bands, "nir")
        /\ FGt(FiniteMean("nir"), FMul(Fin(3, 2), FiniteMean("red"))))
        => HealthyVegetation

DetectedWavelengths == indices.spectral_analysis.wavelength_info.detected_wavelengths
\* the roles whose detected wavelength the hints read as red and as nir
RedByWavelength ==
    {i \in 1..Size(DetectedWavelengths) : Between(600, DetectedWavelengths.items[i].value, 700)}
NirByWavelength ==
    {i \in 1..Size(DetectedWavelengths) :
        /\ Between(700, DetectedWavelengths.items[i].value, 900)
        /\ DetectedWavelengths.items[i].value # Num(700)}
LastMeanOf(taken) == FiniteMean(DetectedWavelengths.items[Highest(taken)].key)

\* C26 as amended: the hints contain healthy_vegetation with confidence high
\* exactly when some role has a detected wavelength of 600 to 700 nm and
\* some role one above 700 up to 900 nm, and the band means of the last such
\* roles are not 0 and satisfy nir_mean > 1.5 x red_mean; a red or nir band
\* without a detected wavelength gives no hint.
ClaimC26_HealthyVegetationFromWavelengths ==
    Analyzed =>
        (HealthyVegetation <=>
            /\ RedByWavelength # {} /\ NirByWavelength # {}
            /\ LastMeanOf(RedByWavelength) # Num(0) /\ LastMeanOf(NirByWavelength) # Num(0)
            /\ FGt(LastMeanOf(NirByWavelength), FMul(Fin(3, 2), LastMeanOf(RedByWavelength))))
WitnessC26_HintFromWavelengths ==
    /\ Analyzed
    /\ RedByWavelength # {} /\ NirByWavelength # {}
    /\ HealthyVegetation

\* the wavelength in the metadata of the band whose array the role map holds
\* for the k-th role
WavelengthOfHeldBand(k) == ExtractWavelength(dataset[all_bands.items[k].value.band].metadata)

\* C29: for every role, the wavelength reported in detected_wavelengths is
\* the wavelength of the band whose array the role map holds for that role;
\* when that band has no wavelength, the role has no detected wavelength.
ClaimC29_WavelengthOfHeldBand ==
    Analyzed =>
        \A k \in 1..Size(all_bands) :
            IF WavelengthOfHeldBand(k) = None
            THEN ~Has(DetectedWavelengths, all_bands.items[k].key)
            ELSE /\ Has(DetectedWavelengths, all_bands.items[k].key)
                 /\ Get(DetectedWavelengths, all_bands.items[k].key) = WavelengthOfHeldBand(k)

(***************************************************************************)
(* Properties of the keyword table (checked under SpecClassify).           *)
(***************************************************************************)
\* C27: for every role of the keyword table and every keyword listed for
\* it, a band whose description is exactly that keyword is classified as
\* that role.
ClaimC27_KeywordGivesItsRole ==
    Classified =>
        \A i \in 1..Len(patterns) :
            \A j \in 1..Len(patterns[i].keywords) :
                (description = patterns[i].keywords[j]) => detected = Return(patterns[i].role)

(***************************************************************************)
(* Properties of the band statistics (checked under SpecExtract).          *)
(***************************************************************************)
SectionsRead == raw_data # None
StatisticsOfBand(i) == Get(Get(raw_data, "band_data").items[i], "statistics")
RasterWidth == Get(Get(raw_data, "raster_info"), "width").v
RasterHeight == Get(Get(raw_data, "raster_info"), "height").v

\* C28: for every band, valid_pixels is the number of pixels that differ
\* from the band's declared or inferred no-data value (all pixels when there
\* is none), and valid_pixels + nodata_pixels = total_pixels = width x
\* height.
ClaimC28_ValidPixelsCounted ==
    SectionsRead =>
        \A i \in 1..Len(file.raster) :
            /\ Get(StatisticsOfBand(i), "valid_pixels").v =
                   Cardinality(ValidData(file.raster[i].data.cells))
            /\ Get(StatisticsOfBand(i), "valid_pixels").v
                   + Get(StatisticsOfBand(i), "nodata_pixels").v
                   = Get(StatisticsOfBand(i), "total_pixels").v
            /\ Get(StatisticsOfBand(i), "total_pixels").v = RasterWidth * RasterHeight

====
